---- MODULE Spec2Model ----
(***************************************************************************)
(* Ingestion pipeline (scripts/generate-drive-token.ts: chunkText,         *)
(* embedWithOllama, runPool, ingestOne) and query pipeline (rag.routes:    *)
(* classifyIntent, ragRetrieval, generateExamAnswer, POST /query) of the   *)
(* OA backend, as state machines.                                          *)
(*                                                                         *)
(* Text is a string.  Similarity scores, confidence and coverage are       *)
(* exact rationals [n |-> num, d |-> den].                                 *)
(***************************************************************************)
EXTENDS Integers, Sequences, FiniteSets, Bags, TLC

VARIABLES
  \* ---- chunkText (one activation) ----
  ckPc,        \* "idle" | "loop" | "done"
  clean,       \* the cleaned text the loop runs over
  chunkSize,   \* parameter chunkSize
  overlap,     \* parameter overlap
  i,           \* loop variable i (0-based start offset)
  chunks,      \* the result list being built
  visited,     \* history: one record per loop iteration [from, to, kept]
  \* ---- the store ----
  ragChunks,      \* table rag_chunks: a set of rows
  ragEmbeddings,  \* table rag_embeddings: a bag of rows [chunk_id, model]
  nextId,         \* the next id the store gives a new rag_chunks row
  paperFiles,     \* table paper_files: the ids of its rows
  \* ---- the ingestion process ----
  env,          \* CHUNK_SIZE, CHUNK_OVERLAP, MAX_CHUNKS_PER_FILE, EMBED_CONCURRENCY
  ollamaModel,  \* OLLAMA_MODEL of the running process
  inPc,         \* position of ingestOne
  pfId,         \* pf.id of the document being ingested
  fileChunks,   \* ingestOne's local chunks (after the MAX_CHUNKS_PER_FILE cut)
  dbChunks,     \* rows read back, ordered by chunk_index
  toEmbed,      \* rows with no embedding yet
  idx,          \* runPool's idx
  runners,      \* runPool's runners: [st, my]
  embedsMade,   \* ingestOne's local counter
  poolLog,      \* history: the worker invocations of runPool [started, finished]
  inResult,     \* what ingestOne returned, or NoResult
  \* ---- history of the ingestion runs ----
  runs,         \* number of ingestOne calls so far
  cur,          \* this call: [pf, tid, clean]: clean while no operation failed
  faults,       \* number of failed external operations so far
  prev,         \* the call before: [pf, tid, clean, exited]
  atStart,      \* the store when this call started: [chunks, embeds]
  \* ---- the POST /query handler (one request) ----
  qPc,          \* "idle" | "embed" | "search" | "enrich" | "llm" | "papers" | "done" | "returned"
  req,          \* req.body: [question, limit, filters]
  classification,  \* classifyIntent(question)
  usesFallback,    \* ragRetrieval's usesFallback
  filteredResults, \* ragRetrieval's filteredResults
  enrichedChunks,  \* ragRetrieval's enrichedChunks
  papersRes,       \* how the papers query settled: [kind, data]
  searchRes,       \* how the rag_search call settled: [kind, data]
  enrichRes,       \* how the enrichment select settled: [kind, data]
  completion,      \* how the language-model call settled: [kind, text, parsed]
  ragResult,    \* what ragRetrieval returned
  examAnswer,   \* what generateExamAnswer returned (NoAnswer for null)
  responses     \* the responses sent for the request, in order

ckVars == <<ckPc, clean, chunkSize, overlap, i, chunks, visited>>
storeVars == <<ragChunks, ragEmbeddings, nextId>>
poolVars == <<toEmbed, idx, runners, embedsMade, poolLog>>
inVars == <<env, paperFiles, ollamaModel, inPc, pfId, fileChunks, dbChunks, poolVars, inResult>>
histVars == <<runs, cur, faults, prev, atStart>>

qVars == <<qPc, req, classification, usesFallback, filteredResults, enrichedChunks,
           papersRes, searchRes, enrichRes, completion, ragResult, examAnswer, responses>>

vars == <<ckVars, storeVars, inVars, histVars, qVars>>

-----------------------------------------------------------------------------
(* Bounds of the model *)

\* The chunk loop is explored for at most this many iterations per activation.
MaxIter == 8

\* ingestOne is called at most this many times in a behaviour.
MaxRuns == 2

\* At most this many external operations fail in a behaviour.
MaxFaults == 1

\* rag_search reports at most this many hits.
MaxHits == 4

-----------------------------------------------------------------------------
(* Text helpers *)

Min(a, b) == IF a <= b THEN a ELSE b
Max(a, b) == IF a >= b THEN a ELSE b

\* The character c repeated n times.
RECURSIVE Rep(_, _)
Rep(c, n) ==
  IF n <= 0 THEN ""
  ELSE IF n = 1 THEN c
       ELSE Rep(c, n \div 2) \o Rep(c, n - (n \div 2))

\* s.charAt(k - 1): the k-th character, 1-based
CharAt(s, k) == SubSeq(s, k, k)

\* Characters String.prototype.trim() strips (those the model's alphabet has).
IsSpace(c) == c \in {" ", "\t", "\n", "\r"}

\* s.slice(from, to) for 0 <= from <= to <= s.length
Slice(s, from, to) == SubSeq(s, from + 1, to)

\* s.trim()
Trim(s) ==
  LET n == Len(s)
      ink(k) == ~IsSpace(CharAt(s, k))
  IN  IF \A k \in 1..n : ~ink(k) THEN ""
      ELSE LET lo == CHOOSE k \in 1..n : ink(k) /\ \A m \in 1..(k-1) : ~ink(m)
               back == CHOOSE j \in 1..n :
                         ink(n + 1 - j) /\ \A m \in 1..(j-1) : ~ink(n + 1 - m)
           IN  SubSeq(s, lo, n + 1 - back)

\* The characters of s at the positions lo..hi that are in keep, in order.
RECURSIVE PickRange(_, _, _, _)
PickRange(s, keep, lo, hi) ==
  IF lo > hi THEN ""
  ELSE IF lo = hi THEN (IF lo \in keep THEN CharAt(s, lo) ELSE "")
       ELSE LET mid == (lo + hi) \div 2
            IN  PickRange(s, keep, lo, mid) \o PickRange(s, keep, mid + 1, hi)

PickFrom(s, keep) == PickRange(s, keep, 1, Len(s))

\* .replace(/\r/g, "")
DropCR(s) == PickFrom(s, {k \in 1..Len(s) : CharAt(s, k) # "\r"})

\* .replace(/[ \t]+\n/g, "\n"): every maximal run of blanks that a newline
\* follows is deleted, so a blank goes exactly when only blanks separate it
\* from a later newline.
StripBlanksBeforeNL(s) ==
  LET blank(k) == CharAt(s, k) \in {" ", "\t"}
      dropped(k) == /\ blank(k)
                    /\ \E m \in (k+1)..Len(s) :
                         CharAt(s, m) = "\n" /\ \A j \in (k+1)..(m-1) : blank(j)
  IN  PickFrom(s, {k \in 1..Len(s) : ~dropped(k)})

\* .replace(/\n{3,}/g, "\n\n"): of a run of three or more newlines the first
\* two stay.
CollapseNL(s) ==
  LET nl(k) == CharAt(s, k) = "\n"
      dropped(k) == k >= 3 /\ nl(k) /\ nl(k-1) /\ nl(k-2)
  IN  PickFrom(s, {k \in 1..Len(s) : ~dropped(k)})

CleanText(text) == Trim(CollapseNL(StripBlanksBeforeNL(DropCR(text))))

-----------------------------------------------------------------------------
(* Inputs *)

\* Input texts: a run of letters below the 200-character minimum, longer
\* runs, a text with a long run of blanks inside, one with carriage returns,
\* trailing blanks and blank lines, a short one and a blank one.
Texts ==
  { Rep("a", 150),
    Rep("a", 210),
    Rep("a", 100) \o Rep(" ", 95) \o Rep("a", 100),
    " " \o Rep("a", 90) \o " \t\r\n\r\n\n\n" \o Rep("a", 130) \o "\n ",
    Rep("a", 5),
    " \n",
    "" }

ChunkSizes == {1, 50, 100, 120, 300}
Overlaps == {0, 10, 100, 150}

\* What text extraction may yield for a document (parsed.text): below the
\* 200-character minimum, two fragments' worth, three fragments' worth.
IngestTexts == << Rep("a", 150), "  " \o Rep("a", 210) \o "\n", Rep("a", 290) >>

\* const text = (parsed?.text || "").trim()
ExtractedText == [tid \in DOMAIN IngestTexts |-> Trim(IngestTexts[tid])]

-----------------------------------------------------------------------------
(* chunkText(text, chunkSize, overlap) *)

\* A fragment is kept when its trimmed length exceeds this.
MinChunkLen == 80

\* const end = Math.min(clean.length, i + chunkSize)
ChunkEnd == Min(Len(clean), i + chunkSize)

\* (ChunkAt done wrongly: the slice is not trimmed)
ChunkAtUntrimmed == Slice(clean, i, ChunkEnd)

\* const chunk = clean.slice(i, end).trim()
ChunkAt == Trim(Slice(clean, i, ChunkEnd))

\* if (chunk.length > 80) chunks.push(chunk)
KeepChunk(chunk) == Len(chunk) > MinChunkLen

\* (NextStart done wrongly: the overlap is added instead of subtracted)
NextStartForward(end) == Max(0, end + overlap)

\* i = Math.max(0, end - overlap)
NextStart(end) == Max(0, end - overlap)

\* CleanText, tabulated over the texts that occur.
Cleaned ==
  [text \in Texts \cup {ExtractedText[tid] : tid \in DOMAIN IngestTexts} |->
     CleanText(text)]

\* Entry of chunkText: clean the text, chunks = [], i = 0, and evaluate the
\* loop condition a first time.
ChunkEnter(text, size, ov) ==
  /\ clean' = Cleaned[text]
  /\ chunkSize' = size
  /\ overlap' = ov
  /\ i' = 0
  /\ chunks' = <<>>
  /\ visited' = <<>>
  /\ ckPc' = IF Len(Cleaned[text]) > 0 THEN "loop" ELSE "done"

\* No activation of chunkText exists.
NoChunkCall ==
  /\ ckPc' = "idle"
  /\ clean' = ""
  /\ chunkSize' = 1
  /\ overlap' = 0
  /\ i' = 0
  /\ chunks' = <<>>
  /\ visited' = <<>>

\* One iteration of the while loop.
ChunkStep ==
  /\ ckPc = "loop"
  /\ Len(visited) < MaxIter
  /\ LET end == ChunkEnd
         chunk == ChunkAt
         kept == KeepChunk(chunk)
     IN  /\ chunks' = IF kept THEN Append(chunks, chunk) ELSE chunks
         /\ visited' = Append(visited, [from |-> i, to |-> end, kept |-> kept])
         /\ IF end >= Len(clean)
            THEN /\ ckPc' = "done"            \* break
                 /\ i' = i
            ELSE /\ i' = NextStart(end)
                 /\ ckPc' = IF NextStart(end) < Len(clean) THEN "loop" ELSE "done"
  /\ UNCHANGED <<clean, chunkSize, overlap>>

-----------------------------------------------------------------------------
(* Specification of chunkText alone: inputs drawn from bounded sets *)

\* A call chunkText(text, size, ov).
CallChunkText ==
  /\ ckPc = "idle"
  /\ \E text \in Texts, size \in ChunkSizes, ov \in Overlaps :
       ChunkEnter(text, size, ov)
  /\ UNCHANGED <<storeVars, inVars, histVars, qVars>>

ChunkLoop == ChunkStep /\ UNCHANGED <<storeVars, inVars, histVars, qVars>>

NextChunk ==
  \/ CallChunkText
  \/ ChunkLoop

-----------------------------------------------------------------------------
(* The store: tables rag_chunks and rag_embeddings *)

\* sha256 of `${id}:${idx}:${content}`: modelled as collision-free, the digest
\* standing for exactly one (id, idx, content).
Sha256(id, k, content) == <<id, k, content>>

\* (Upsert done wrongly: a plain insert, every row stored anew)
InsertAll(table, rows, next) ==
  table \cup { [id |-> next + k - 1,
                paper_file_id |-> rows[k].paper_file_id,
                chunk_index |-> rows[k].chunk_index,
                content |-> rows[k].content,
                content_hash |-> rows[k].content_hash,
                embedding_status |-> rows[k].embedding_status] : k \in 1..Len(rows) }

\* (Upsert done wrongly: a stored row of the same content_hash is deleted and
\* the row stored anew under a fresh id)
UpsertReplacing(table, rows, next) ==
  InsertAll({t \in table : \A k \in 1..Len(rows) : t.content_hash # rows[k].content_hash},
            rows, next)

\* .upsert(rows, { onConflict: "content_hash" }): a row whose content_hash is
\* stored overwrites the stored row's columns (the stored id stays); any other
\* row is inserted under a fresh id.
Upsert(table, rows, next) ==
  LET stored(h) == \E t \in table : t.content_hash = h
      isNew(k) == ~stored(rows[k].content_hash)
      fresh(k) == next + Cardinality({m \in 1..(k-1) : isNew(m)})
      hashes == {rows[k].content_hash : k \in 1..Len(rows)}
      updated == { [id |-> t.id,
                    paper_file_id |-> rows[k].paper_file_id,
                    chunk_index |-> rows[k].chunk_index,
                    content |-> rows[k].content,
                    content_hash |-> rows[k].content_hash,
                    embedding_status |-> rows[k].embedding_status] :
                   <<t, k>> \in {tk \in table \X (1..Len(rows)) :
                                   tk[1].content_hash = rows[tk[2]].content_hash} }
      inserted == { [id |-> fresh(k),
                     paper_file_id |-> rows[k].paper_file_id,
                     chunk_index |-> rows[k].chunk_index,
                     content |-> rows[k].content,
                     content_hash |-> rows[k].content_hash,
                     embedding_status |-> rows[k].embedding_status] :
                    k \in {m \in 1..Len(rows) : isNew(m)} }
  IN  {t \in table : t.content_hash \notin hashes} \cup updated \cup inserted

\* The largest id of the table's rows, plus one.
NextIdAfter(table, next) ==
  IF table = {} THEN next
  ELSE Max(next, 1 + CHOOSE n \in {t.id : t \in table} :
                        \A t \in table : t.id <= n)

\* .select(...).eq("paper_file_id", id).order("chunk_index"): the orders the
\* store may return the document's rows in.
RowsOrdered(table, id) ==
  LET mine == {t \in table : t.paper_file_id = id}
      n == Cardinality(mine)
  IN  { s \in [1..n -> mine] :
          /\ \A a, b \in 1..n : a # b => s[a] # s[b]
          /\ \A a \in 1..(n-1) : s[a].chunk_index <= s[a+1].chunk_index }

\* (ExistingEmbeds done wrongly: no embedding is found)
ExistingEmbedsNone(embeds, chunkIds) == {}

\* .from("rag_embeddings").select("chunk_id").in("chunk_id", chunkIds)
ExistingEmbeds(embeds, chunkIds) ==
  {e.chunk_id : e \in {x \in BagToSet(embeds) : x.chunk_id \in chunkIds}}

\* .insert({ chunk_id, embedding, model })
InsertEmbedding(embeds, chunkId, model) ==
  embeds (+) SetToBag({[chunk_id |-> chunkId, model |-> model]})

\* .update({ embedding_status: "done" }).eq("id", chunkId)
MarkDone(table, chunkId) ==
  { IF t.id = chunkId THEN [t EXCEPT !.embedding_status = "done"] ELSE t :
    t \in table }

-----------------------------------------------------------------------------
(* ingestOne and runPool *)

\* Extracted texts shorter than this are skipped.
MinTextLen == 200

NoResult == [chunksMade |-> -1, embedsMade |-> -1]
IdleRunner == [st |-> "idle", my |-> -1]

\* The configuration of the ingestion processes (process.env): the chunker's
\* and the pool's settings, and the values OLLAMA_MODEL takes from one process
\* start to the next.
Envs == { [CHUNK_SIZE |-> 100, CHUNK_OVERLAP |-> 10,
           MAX_CHUNKS_PER_FILE |-> 3, EMBED_CONCURRENCY |-> c,
           OLLAMA_MODELS |-> {"bge-m3"}] : c \in {1, 2} }

\* EMBED_CONCURRENCY || 2
DefaultEnv == CHOOSE e \in Envs : e.EMBED_CONCURRENCY = 2

\* The same settings, OLLAMA_MODEL being set to another model for a later
\* start of the process.
ModelEnvs == { [CHUNK_SIZE |-> 100, CHUNK_OVERLAP |-> 10,
                MAX_CHUNKS_PER_FILE |-> 3, EMBED_CONCURRENCY |-> 2,
                OLLAMA_MODELS |-> {"bge-m3", "nomic-embed-text"}] }

\* Table paper_files: the ids of the documents.
PaperFiles == {"pf1", "pf2"}

Take(s, n) == SubSeq(s, 1, Min(n, Len(s)))

\* (TooLittleText done wrongly: the fragment minimum is used for the text)
TooLittleTextMin(text) == Len(text) < MinChunkLen

\* if (text.length < 200)
TooLittleText(text) == Len(text) < MinTextLen

\* chunks.map((content, idx) => ({ ... }))
ChunkRows(id, cs) ==
  [k \in 1..Len(cs) |->
     [paper_file_id |-> id, chunk_index |-> k - 1, content |-> cs[k],
      content_hash |-> Sha256(id, k - 1, cs[k]), embedding_status |-> "pending"]]

\* The pool's runners after runner r has run up to its next await with
\* `next` the value of idx: while (idx < items.length) { my = idx++; worker }
RunnerTake(rs, r, next, items) ==
  IF next < Len(items)
  THEN [rs EXCEPT ![r] = [st |-> "embed", my |-> next]]
  ELSE [rs EXCEPT ![r] = [st |-> "exit", my |-> -1]]

\* (IdxAfterTake done wrongly: my = idx, idx is not incremented)
IdxNotAdvanced(next, items) == next

\* const my = idx++
IdxAfterTake(next, items) == IF next < Len(items) THEN next + 1 ELSE next

\* The worker invocations a runner makes when it runs up to its next await
\* with `next` the value of idx: worker(items[my]), or none.
WorkerCalls(next, items) == IF next < Len(items) THEN <<next>> ELSE <<>>

\* (Runners done wrongly: one runner more than concurrency is started)
RunnersOneMore == 1..(env.EMBED_CONCURRENCY + 1)

\* Array.from({ length: concurrency }, ...): the runners
Runners == 1..env.EMBED_CONCURRENCY

\* Array.from({ length: concurrency }, () => runner()): the runners start one
\* after the other, each running up to its first await.
RECURSIVE StartRunners(_, _, _, _)
StartRunners(rs, r, next, items) ==
  IF r \notin Runners THEN [rs |-> rs, idx |-> next, calls |-> <<>>]
  ELSE LET rest == StartRunners(RunnerTake(rs, r, next, items), r + 1,
                                IdxAfterTake(next, items), items)
       IN  [rest EXCEPT !.calls = WorkerCalls(next, items) \o @]

NoPoolLog == [started |-> <<>>, finished |-> <<>>]

\* Runner r's worker has settled (returned or thrown).
WorkerSettled(r) == [poolLog EXCEPT !.finished = Append(@, runners[r].my)]

\* Runner r's worker has returned and the runner has gone round its loop.
WorkerReturned(r) ==
  [poolLog EXCEPT !.finished = Append(@, runners[r].my),
                  !.started = @ \o WorkerCalls(idx, toEmbed)]

ResetRun ==
  /\ fileChunks' = <<>>
  /\ dbChunks' = <<>>
  /\ toEmbed' = <<>>
  /\ idx' = 0
  /\ runners' = [r \in Runners |-> IdleRunner]
  /\ embedsMade' = 0
  /\ poolLog' = NoPoolLog

\* ingestOne returns { chunksMade: c, embedsMade: e }.
Return(c, e) ==
  /\ inPc' = "returned"
  /\ inResult' = [chunksMade |-> c, embedsMade |-> e]

\* An external operation fails.
Fault ==
  /\ faults < MaxFaults
  /\ faults' = faults + 1
  /\ cur' = [cur EXCEPT !.clean = FALSE]

NoFault == UNCHANGED <<faults, cur>>

\* ingestOne(pf), up to the text-length check: the download fails, or text
\* extraction throws, or it yields text number tid.
IngestStart ==
  /\ inPc \in {"idle", "returned", "exited"}
  /\ runs < MaxRuns
  /\ runs' = runs + 1
  /\ prev' = [pf |-> cur.pf, tid |-> cur.tid,
              clean |-> inPc = "returned" /\ cur.clean,
              exited |-> inPc = "exited"]
  /\ atStart' = [chunks |-> ragChunks, embeds |-> ragEmbeddings]
  /\ ResetRun
  /\ \E pf \in paperFiles, m \in env.OLLAMA_MODELS :
       /\ pfId' = pf
       /\ ollamaModel' = m
       /\ \/ /\ cur' = [pf |-> pf, tid |-> 0, clean |-> FALSE]  \* download failed
             /\ faults < MaxFaults
             /\ faults' = faults + 1
             /\ inPc' = "returned"
             /\ inResult' = [chunksMade |-> 0, embedsMade |-> 0]
             /\ NoChunkCall
          \/ /\ cur' = [pf |-> pf, tid |-> 0, clean |-> FALSE]  \* getText() throws
             /\ faults < MaxFaults
             /\ faults' = faults + 1
             /\ inPc' = "rejected"
             /\ inResult' = NoResult
             /\ NoChunkCall
          \/ \E tid \in DOMAIN IngestTexts :
               LET text == ExtractedText[tid]
               IN  /\ cur' = [pf |-> pf, tid |-> tid, clean |-> TRUE]
                   /\ UNCHANGED faults
                   /\ IF TooLittleText(text)
                      THEN /\ inPc' = "returned"
                           /\ inResult' = [chunksMade |-> 0, embedsMade |-> 0]
                           /\ NoChunkCall
                      ELSE /\ inPc' = "chunking"
                           /\ inResult' = NoResult
                           /\ ChunkEnter(text, env.CHUNK_SIZE, env.CHUNK_OVERLAP)
  /\ UNCHANGED <<storeVars, env, paperFiles, qVars>>

\* The loop of the chunkText call ingestOne makes.
IngestChunk ==
  /\ inPc = "chunking"
  /\ ChunkStep
  /\ UNCHANGED <<storeVars, inVars, histVars, qVars>>

\* chunkText has returned: cut to MAX_CHUNKS_PER_FILE, build the rows and
\* upsert them.
IngestUpsert ==
  /\ inPc = "chunking"
  /\ ckPc = "done"
  /\ LET cs == Take(chunks, env.MAX_CHUNKS_PER_FILE)
     IN  /\ fileChunks' = cs
         /\ \/ /\ ragChunks' = Upsert(ragChunks, ChunkRows(pfId, cs), nextId)
               /\ nextId' = NextIdAfter(Upsert(ragChunks, ChunkRows(pfId, cs), nextId), nextId)
               /\ inPc' = "readChunks"
               /\ UNCHANGED inResult
               /\ NoFault
            \/ /\ Return(0, 0)                                  \* upErr
               /\ Fault
               /\ UNCHANGED <<ragChunks, nextId>>
  /\ UNCHANGED <<ckVars, ragEmbeddings, env, paperFiles, ollamaModel, pfId, dbChunks,
                 poolVars, runs, prev, atStart, qVars>>

\* load chunks (get IDs)
IngestReadChunks ==
  /\ inPc = "readChunks"
  /\ \/ /\ \E rows \in RowsOrdered(ragChunks, pfId) : dbChunks' = rows
        /\ inPc' = "readEmbeds"
        /\ UNCHANGED inResult
        /\ NoFault
     \/ /\ Return(Len(fileChunks), 0)                           \* chErr
        /\ Fault
        /\ UNCHANGED dbChunks
  /\ UNCHANGED <<ckVars, storeVars, env, paperFiles, ollamaModel, pfId, fileChunks,
                 poolVars, runs, prev, atStart, qVars>>

\* find existing embeddings, compute toEmbed and start the pool
IngestReadEmbeds ==
  /\ inPc = "readEmbeds"
  /\ \/ LET ids == {dbChunks[k].id : k \in 1..Len(dbChunks)}
            existingSet == ExistingEmbeds(ragEmbeddings, ids)
            items == SelectSeq(dbChunks, LAMBDA c : c.id \notin existingSet)
            started == StartRunners(runners, 1, 0, items)
        IN  /\ toEmbed' = items
            /\ runners' = started.rs
            /\ idx' = started.idx
            /\ embedsMade' = 0
            /\ poolLog' = [started |-> started.calls, finished |-> <<>>]
            /\ inPc' = "pool"
            /\ UNCHANGED inResult
            /\ NoFault
     \/ /\ Return(Len(fileChunks), 0)                           \* exErr
        /\ Fault
        /\ UNCHANGED poolVars
  /\ UNCHANGED <<ckVars, storeVars, env, paperFiles, ollamaModel, pfId, fileChunks,
                 dbChunks, runs, prev, atStart, qVars>>

PoolLive == inPc \in {"pool", "rejected"}

\* embedWithOllama resolves in runner r's worker, which sends the insert; or it
\* throws (transport error, non-2xx status, malformed response): the worker's
\* promise rejects, so do the runner's, Promise.all's, runPool's and
\* ingestOne's.
EmbedDone(r) ==
  /\ inPc = "pool"
  /\ runners[r].st = "embed"
  /\ \/ /\ runners' = [runners EXCEPT ![r].st = "insert"]
        /\ UNCHANGED <<inPc, poolLog>>
        /\ NoFault
     \/ /\ runners' = [runners EXCEPT ![r].st = "thrown"]
        /\ inPc' = "rejected"
        /\ poolLog' = WorkerSettled(r)
        /\ Fault
  /\ UNCHANGED <<ckVars, storeVars, env, paperFiles, ollamaModel, pfId, fileChunks,
                 dbChunks, toEmbed, idx, embedsMade, inResult, runs, prev, atStart, qVars>>

\* The insert of runner r's worker answers: stored, and the status update is
\* sent; or insErr, and the worker returns, the runner taking its next item.
InsertDone(r) ==
  /\ inPc = "pool"
  /\ runners[r].st = "insert"
  /\ \/ /\ ragEmbeddings' =
             InsertEmbedding(ragEmbeddings, toEmbed[runners[r].my + 1].id, ollamaModel)
        /\ runners' = [runners EXCEPT ![r].st = "update"]
        /\ UNCHANGED <<idx, poolLog>>
        /\ NoFault
     \/ /\ runners' = RunnerTake(runners, r, idx, toEmbed)
        /\ idx' = IdxAfterTake(idx, toEmbed)
        /\ poolLog' = WorkerReturned(r)
        /\ Fault
        /\ UNCHANGED ragEmbeddings
  /\ UNCHANGED <<ckVars, ragChunks, nextId, env, paperFiles, ollamaModel, inPc, pfId,
                 fileChunks, dbChunks, toEmbed, embedsMade, inResult, runs,
                 prev, atStart, qVars>>

\* The status update of runner r's worker answers (its error is not looked
\* at): embedsMade++, the worker returns and the runner takes its next item.
UpdateDone(r) ==
  /\ inPc = "pool"
  /\ runners[r].st = "update"
  /\ \/ /\ ragChunks' = MarkDone(ragChunks, toEmbed[runners[r].my + 1].id)
        /\ NoFault
     \/ /\ UNCHANGED ragChunks
        /\ Fault
  /\ embedsMade' = embedsMade + 1
  /\ runners' = RunnerTake(runners, r, idx, toEmbed)
  /\ idx' = IdxAfterTake(idx, toEmbed)
  /\ poolLog' = WorkerReturned(r)
  /\ UNCHANGED <<ckVars, ragEmbeddings, nextId, env, paperFiles, ollamaModel, inPc, pfId,
                 fileChunks, dbChunks, toEmbed, inResult, runs, prev, atStart, qVars>>

\* await Promise.all(workers) resolves: every runner has left its loop.
PoolJoin ==
  /\ inPc = "pool"
  /\ \A r \in Runners : runners[r].st = "exit"
  /\ Return(Len(fileChunks), embedsMade)
  /\ NoFault
  /\ UNCHANGED <<ckVars, storeVars, env, paperFiles, ollamaModel, pfId, fileChunks,
                 dbChunks, poolVars, runs, prev, atStart, qVars>>

\* main().catch: an ingestOne that rejected ends the process, process.exit(1).
\* A request already sent by another runner may still reach the store.
ProcessExit ==
  /\ inPc = "rejected"
  /\ inPc' = "exited"
  /\ \E landed \in SUBSET {r \in Runners : runners[r].st \in {"insert", "update"}} :
       LET ins == {r \in landed : runners[r].st = "insert"}
           upd == {r \in landed : runners[r].st = "update"}
           item(r) == toEmbed[runners[r].my + 1].id
       IN  /\ ragEmbeddings' =
                ragEmbeddings (+) SetToBag({[chunk_id |-> item(r), model |-> ollamaModel] : r \in ins})
           /\ ragChunks' =
                { IF \E r \in upd : item(r) = t.id
                  THEN [t EXCEPT !.embedding_status = "done"] ELSE t : t \in ragChunks }
  /\ UNCHANGED <<ckVars, nextId, env, paperFiles, ollamaModel, pfId, fileChunks, dbChunks,
                 poolVars, inResult, histVars, qVars>>

NextIngest ==
  \/ IngestStart
  \/ IngestChunk
  \/ IngestUpsert
  \/ IngestReadChunks
  \/ IngestReadEmbeds
  \/ \E r \in Runners : EmbedDone(r)
  \/ \E r \in Runners : InsertDone(r)
  \/ \E r \in Runners : UpdateDone(r)
  \/ PoolJoin
  \/ ProcessExit

-----------------------------------------------------------------------------
(* Rationals: similarity, confidence and coverage *)

R(n, d) == [n |-> n, d |-> d]
RLe(a, b) == a.n * b.d <= b.n * a.d
RLt(a, b) == a.n * b.d < b.n * a.d
REq(a, b) == a.n * b.d = b.n * a.d
RMin(a, b) == IF RLe(a, b) THEN a ELSE b
RMax(a, b) == IF RLe(b, a) THEN a ELSE b
RTimes(a, b) == R(a.n * b.n, a.d * b.d)

\* A similarity the search reports, given in hundredths.
Sim(h) == R(h, 100)

RECURSIVE SumN(_)
SumN(sq) == IF sq = <<>> THEN 0 ELSE Head(sq).n + SumN(Tail(sq))

\* scores.reduce((a, b) => a + b, 0) / scores.length, for scores that are all
\* hundredths
Mean(scores) == R(SumN(scores), 100 * Len(scores))

-----------------------------------------------------------------------------
(* classifyIntent *)

Includes(str, sub) ==
  \E k \in 1..(Len(str) - Len(sub) + 1) : SubSeq(str, k, k + Len(sub) - 1) = sub

UpperCase == "ABCDEFGHIJKLMNOPQRSTUVWXYZ"
LowerCase == "abcdefghijklmnopqrstuvwxyz"
Digits == "0123456789"

IndexIn(alphabet, c) ==
  IF \E k \in 1..Len(alphabet) : CharAt(alphabet, k) = c
  THEN CHOOSE k \in 1..Len(alphabet) : CharAt(alphabet, k) = c
  ELSE 0

LowerChar(c) ==
  IF IndexIn(UpperCase, c) > 0 THEN CharAt(LowerCase, IndexIn(UpperCase, c)) ELSE c

\* s.toLowerCase()
RECURSIVE ToLowerRange(_, _, _)
ToLowerRange(str, lo, hi) ==
  IF lo > hi THEN ""
  ELSE IF lo = hi THEN LowerChar(CharAt(str, lo))
       ELSE LET mid == (lo + hi) \div 2
            IN  ToLowerRange(str, lo, mid) \o ToLowerRange(str, mid + 1, hi)

ToLower(str) == ToLowerRange(str, 1, Len(str))

IsDigit(c) == IndexIn(Digits, c) > 0
\* \w
IsWordChar(c) ==
  IndexIn(LowerCase, c) > 0 \/ IndexIn(UpperCase, c) > 0 \/ IsDigit(c) \/ c = "_"

\* \b between the k-th and the (k+1)-th character (k = 0: the start)
WordBoundary(str, k) ==
  (k >= 1 /\ IsWordChar(CharAt(str, k))) # (k < Len(str) /\ IsWordChar(CharAt(str, k + 1)))

\* The places where tok stands between two word boundaries.
TokenAt(str, tok) ==
  {k \in 1..(Len(str) - Len(tok) + 1) :
     /\ SubSeq(str, k, k + Len(tok) - 1) = tok
     /\ WordBoundary(str, k - 1)
     /\ WordBoundary(str, k + Len(tok) - 1)}

\* The places /\b(20\d{2})\b/ matches at.
YearAt(str) ==
  {k \in 1..(Len(str) - 3) :
     /\ SubSeq(str, k, k + 1) = "20"
     /\ IsDigit(CharAt(str, k + 2)) /\ IsDigit(CharAt(str, k + 3))
     /\ WordBoundary(str, k - 1)
     /\ WordBoundary(str, k + 3)}

First(S) == CHOOSE k \in S : \A m \in S : k <= m

\* parseInt of the four digits at k
YearValue(str, k) ==
  2000 + 10 * (IndexIn(Digits, CharAt(str, k + 2)) - 1)
       + (IndexIn(Digits, CharAt(str, k + 3)) - 1)

Greetings == {"hello", "hi", "hey", "thanks", "thank you", "ok", "okay", "yes",
              "no", "sure", "good", "great", "nice", "cool", "bye", "goodby"}
Fillers == {"lol", "haha", "hmm", "umm", "err"}

\* smalltalkPatterns.some((p) => p.test(q))
IsSmalltalk(q) ==
  \/ q \in Greetings
  \/ Len(q) \in 1..3 /\ \A k \in 1..Len(q) : CharAt(q, k) \in {"?", "!", "."}
  \/ q \in Fillers

subjects ==
  << "chemistry", "physics", "biology", "mathematics", "islamiyat", "urdu",
     "english", "computer", "economics", "history", "geography", "art", "music",
     "english language", "english literature" >>

fileTypeIndicators == << "qp", "ms", "er", "gt" >>

\* for (const x of list) if (q.includes(x)) { detected = x; break; }
FirstIncluded(q, list) ==
  LET hits == {k \in 1..Len(list) : Includes(q, list[k])}
  IN  IF hits = {} THEN "" ELSE list[First(hits)]

DetectFileType(q) == FirstIncluded(q, fileTypeIndicators)

UpperOf(ft) ==
  CASE ft = "qp" -> "QP" [] ft = "ms" -> "MS" [] ft = "er" -> "ER"
    [] ft = "gt" -> "GT" [] ft = "p1" -> "P1" [] ft = "p2" -> "P2"
    [] ft = "p3" -> "P3" [] OTHER -> ft

NoMetadata == [subject |-> "", year |-> 0, paper |-> "", fileType |-> ""]

\* classifyIntent(question); "" and 0 stand for undefined
classifyIntent(question) ==
  LET q == Trim(ToLower(question))
      detectedSubject == FirstIncluded(q, subjects)
      detectedYear == IF YearAt(q) = {} THEN 0 ELSE YearValue(q, First(YearAt(q)))
      papers == {<<k, t>> \in (1..Len(q)) \X {"p1", "p2", "p3"} : k \in TokenAt(q, t)}
      detectedPaper ==
        IF papers = {} THEN ""
        ELSE UpperOf((CHOOSE kt \in papers : \A o \in papers : kt[1] <= o[1])[2])
      detectedFileType == UpperOf(DetectFileType(q))
  IN  IF IsSmalltalk(q) THEN [intent |-> "smalltalk", metadata |-> NoMetadata]
      ELSE IF detectedSubject # ""
              /\ (detectedYear # 0 \/ detectedFileType # "" \/ detectedPaper # "")
           THEN [intent |-> "paper_lookup",
                 metadata |-> [subject |-> detectedSubject, year |-> detectedYear,
                               paper |-> detectedPaper, fileType |-> detectedFileType]]
           ELSE [intent |-> "exam_question", metadata |-> NoMetadata]

\* The questions of the requests.
Questions ==
  { "", "   ", "hello", "???", "Chemistry 2022 QP", "explain photosynthesis",
    "what is osmosis", "physics paper", "biology p2", "Physics 2022 QP",
    "physics 2022 ms" }

Classified == [question \in Questions |-> classifyIntent(question)]

-----------------------------------------------------------------------------
(* The data the query pipeline reads *)

SIMILARITY_THRESHOLD == Sim(50)
TOP_K == 16
MAX_CHUNKS_PER_FILE == 2

\* Tables papers, subjects and paper_files, joined.
Papers ==
  { [id |-> "paper1", year |-> 2022, session |-> "May/June", paper |-> "P1",
     subjects |-> [code |-> "1011", level |-> "O"],
     paper_files |-> << [file_type |-> "QP", storage_path |-> "chem/22/qp1.pdf", id |-> "pf1"],
                        [file_type |-> "MS", storage_path |-> "chem/22/ms1.pdf", id |-> "pf2"] >>],
    [id |-> "paper2", year |-> 2022, session |-> "Oct/Nov", paper |-> "P2",
     subjects |-> [code |-> "1001", level |-> "A"],
     paper_files |-> << [file_type |-> "QP", storage_path |-> "phys/22/qp2.pdf", id |-> "pf3"] >>],
    [id |-> "paper3", year |-> 2021, session |-> "May/June", paper |-> "P1",
     subjects |-> [code |-> "9999", level |-> "O"],
     paper_files |-> <<>>] }

\* Rows of rag_chunks as ingestOne stores them (three fragments of pf1, one of
\* pf2, one of pf3), every one embedded.
QueryChunks ==
  LET row(n, pf, k, c) ==
        [id |-> n, paper_file_id |-> pf, chunk_index |-> k, content |-> c,
         content_hash |-> Sha256(pf, k, c), embedding_status |-> "done"]
  IN  { row(1, "pf1", 0, Rep("a", 100)), row(2, "pf1", 1, Rep("a", 100)),
        row(3, "pf1", 2, Rep("a", 90)),  row(4, "pf2", 0, Rep("b", 100)),
        row(5, "pf3", 0, Rep("c", 100)) }

QueryChunkIds == {t.id : t \in QueryChunks}

\* What rag_search may report for a question: the similarity, in hundredths,
\* of each stored fragment to the question's embedding.
Profiles ==
  { [n \in QueryChunkIds |-> 80],
    [n \in QueryChunkIds |-> 30],
    (1 :> 90) @@ (2 :> 50) @@ (3 :> 70) @@ (4 :> 49) @@ (5 :> 30),
    (1 :> 60) @@ (2 :> 95) @@ (3 :> 95) @@ (4 :> 100) @@ (5 :> 55) }

\* The hits for the fragments in S under profile p, by descending similarity
\* (equal similarities by ascending id).
RECURSIVE SortHits(_, _)
SortHits(p, S) ==
  IF S = {} THEN <<>>
  ELSE LET best == CHOOSE n \in S :
                     \A m \in S : p[n] > p[m] \/ (p[n] = p[m] /\ n <= m)
       IN  <<[chunk_id |-> best, similarity |-> Sim(p[best])]>> \o SortHits(p, S \ {best})

\* What the language model may answer: its text, and what JSON.parse yields
\* for the first "{" to the last "}" of it (NoJson: nothing to parse, or a
\* parse error).
NoJson == [none |-> TRUE]
LlmReplies ==
  { [text |-> "", parsed |-> NoJson],
    [text |-> "Osmosis is the movement of water.", parsed |-> NoJson],
    [text |-> "{\"marking_points\":[]}", parsed |-> [marking_points |-> <<>>]],
    [text |-> "{\"answer\":\"\"}", parsed |-> [answer |-> ""]],
    [text |-> "{\"answer\":\"A\"}", parsed |-> [answer |-> "A"]],
    [text |-> "{\"answer\":\"B\",...}",
     parsed |-> [answer |-> "B",
                 marking_points |-> << [kind |-> "object", point |-> "p", marks |-> 3],
                                       [kind |-> "string", value |-> "q"],
                                       [kind |-> "object", point |-> "r", marks |-> 0],
                                       [kind |-> "object", point |-> "s", marks |-> -2] >>,
                 common_mistakes |-> <<"m1", "m2">>]] }

-----------------------------------------------------------------------------
(* ragRetrieval *)

NoRagResult ==
  [success |-> FALSE, groupedResults |-> <<>>, rawSimilarityScores |-> <<>>,
   error |-> ""]

RagFailure(scores, err) ==
  [success |-> FALSE, groupedResults |-> <<>>, rawSimilarityScores |-> scores,
   error |-> err]

\* (FilterByThreshold done wrongly: every hit is kept)
KeepEveryHit(results) == results

\* (searchResults || []).filter((r) => r.similarity >= SIMILARITY_THRESHOLD)
FilterByThreshold(results) ==
  SelectSeq(results, LAMBDA r : RLe(SIMILARITY_THRESHOLD, r.similarity))

Map(sq, Op(_)) == [k \in 1..Len(sq) |-> Op(sq[k])]

RawScores(filtered) == Map(filtered, LAMBDA r : r.similarity)

\* similarityMap.get(chunk.id) || 0
SimilarityOf(filtered, id) ==
  IF \E k \in 1..Len(filtered) : filtered[k].chunk_id = id
  THEN LET last == CHOOSE k \in 1..Len(filtered) :
                     /\ filtered[k].chunk_id = id
                     /\ \A m \in (k+1)..Len(filtered) : filtered[m].chunk_id # id
       IN  filtered[last].similarity
  ELSE Sim(0)

\* The joined columns of the paper_files row pf: file_type, storage_path and
\* the year, session, paper and subject code of its paper.
FileJoin(pf) ==
  LET files(x) == {x.paper_files[k] : k \in 1..Len(x.paper_files)}
      p == CHOOSE x \in Papers : \E f \in files(x) : f.id = pf
      f == CHOOSE x \in files(p) : x.id = pf
  IN  [file_type |-> f.file_type, storage_path |-> f.storage_path, year |-> p.year,
       session |-> p.session, paper |-> p.paper, code |-> p.subjects.code]

\* What the enrichment select may return for chunkIds: the stored rows among
\* them whose joins exist, none twice, in any order.
EnrichedRows(table, chunkIds) ==
  LET ids == {t.id : t \in table} \cap chunkIds
  IN  UNION { { sq \in [1..n -> {t \in table : t.id \in ids}] :
                  \A a, b \in 1..n : a # b => sq[a] # sq[b] } :
              n \in 0..Cardinality(ids) }

\* (RoomInGroup done wrongly: the comparison admits one fragment more)
RoomInGroupOffByOne(group) == Len(group.chunks) <= MAX_CHUNKS_PER_FILE

\* if (group.chunks.length < MAX_CHUNKS_PER_FILE)
RoomInGroup(group) == Len(group.chunks) < MAX_CHUNKS_PER_FILE

\* The body of enrichedChunks.forEach: grouped after the row chunk.
GroupStep(grouped, chunk, filtered) ==
  LET fileId == chunk.paper_file_id
      pf == FileJoin(fileId)
      has == \E k \in 1..Len(grouped) : grouped[k].paperFileId = fileId
      withGroup ==
        IF has THEN grouped
        ELSE Append(grouped,
                    [paperFileId |-> fileId, filetype |-> pf.file_type,
                     storagePath |-> pf.storage_path, chunks |-> <<>>,
                     subject |-> pf.code, year |-> pf.year,
                     session |-> pf.session, paper |-> pf.paper])
      g == CHOOSE k \in 1..Len(withGroup) : withGroup[k].paperFileId = fileId
  IN  IF RoomInGroup(withGroup[g])
      THEN [withGroup EXCEPT ![g].chunks =
              Append(@, [id |-> chunk.id, content |-> chunk.content,
                         chunkIndex |-> chunk.chunk_index,
                         similarity |-> SimilarityOf(filtered, chunk.id)])]
      ELSE withGroup

\* Array.from(grouped.values()) after the forEach over rows
RECURSIVE GroupRows(_, _, _)
GroupRows(grouped, rows, filtered) ==
  IF rows = <<>> THEN grouped
  ELSE GroupRows(GroupStep(grouped, Head(rows), filtered), Tail(rows), filtered)

-----------------------------------------------------------------------------
(* generateExamAnswer *)

NoAnswer == [none |-> TRUE]

\* ragResult.groupedResults.flatMap((group) => group.chunks.map(...))
RECURSIVE FlatChunks(_)
FlatChunks(groups) ==
  IF groups = <<>> THEN <<>>
  ELSE Map(Head(groups).chunks, LAMBDA c : [group |-> Head(groups), chunk |-> c])
       \o FlatChunks(Tail(groups))

\* !contextChunks.trim(): every content joined is blank
ContextBlank(groups) ==
  \A k \in 1..Len(FlatChunks(groups)) : Trim(FlatChunks(groups)[k].chunk.content) = ""

\* if (!ragResult.success || ragResult.groupedResults.length === 0) return null
\* and if (!contextChunks.trim()) return null
AnswerGuard(result) ==
  /\ result.success
  /\ Len(result.groupedResults) > 0
  /\ ~ContextBlank(result.groupedResults)

HasField(rec, f) == f \in DOMAIN rec

\* (ParsedOrFallback done wrongly: what was parsed is used as it is)
ParsedAsIs(reply) ==
  IF reply.parsed = NoJson THEN [answer |-> reply.text] ELSE reply.parsed

\* if (!parsed || !parsed.answer) parsed = { fallback }
ParsedOrFallback(reply) ==
  IF HasField(reply.parsed, "answer") /\ reply.parsed.answer # ""
  THEN reply.parsed
  ELSE [answer |-> IF reply.text # "" THEN SubSeq(reply.text, 1, Min(500, Len(reply.text)))
                   ELSE "Unable to generate answer from the retrieved documents.",
        marking_points |-> <<[kind |-> "object",
                              point |-> "Review the answer against the source material",
                              marks |-> 1]>>,
        common_mistakes |-> <<"Unclear from the available resources">>]

\* parsed.marking_points.map((item) => ...)
MarkingPoint(item) ==
  IF item.kind = "string" THEN [point |-> item.value, marks |-> 1]
  ELSE IF item.point # "" /\ item.marks # 0
       THEN [point |-> item.point, marks |-> Max(1, item.marks)]
       ELSE [point |-> "[object Object]", marks |-> 1]

MarkingPoints(parsed) ==
  IF HasField(parsed, "marking_points") /\ Len(parsed.marking_points) > 0
  THEN Map(parsed.marking_points, MarkingPoint)
  ELSE <<[point |-> "Key concept from sources", marks |-> 1]>>

\* (AvgSimilarity done wrongly: 0 when there are no scores)
AvgSimilarityOrZero(scores) == IF Len(scores) > 0 THEN Mean(scores) ELSE R(0, 1)

\* avgSimilarity: the mean of the raw scores, 0.3 when there are none
AvgSimilarity(scores) == IF Len(scores) > 0 THEN Mean(scores) ELSE R(3, 10)

\* (ConfidenceScore done wrongly: the boosted score is not capped at 1)
ConfidenceScoreUncapped(result) ==
  LET base == RMin(R(1, 1), RMax(R(1, 10), AvgSimilarity(result.rawSimilarityScores)))
  IN  IF Len(result.groupedResults) >= 3 THEN RTimes(base, R(12, 10)) ELSE base

\* let confidenceScore = Math.min(1, Math.max(0.1, avgSimilarity));
\* if (groupedResults.length >= 3) confidenceScore = Math.min(1, confidenceScore * 1.2)
ConfidenceScore(result) ==
  LET base == RMin(R(1, 1), RMax(R(1, 10), AvgSimilarity(result.rawSimilarityScores)))
  IN  IF Len(result.groupedResults) >= 3
      THEN RMin(R(1, 1), RTimes(base, R(12, 10)))
      ELSE base

\* Math.min(100, (groupedResults.length / TOP_K) * 100)
CoveragePercentage(result) ==
  RMin(R(100, 1), R(100 * Len(result.groupedResults), TOP_K))

\* sq sorted by similarity descending, equal similarities keeping their order
\* (Array.prototype.sort is stable)
RECURSIVE SortBySimilarity(_)
SortBySimilarity(sq) ==
  IF sq = <<>> THEN <<>>
  ELSE LET best == CHOOSE k \in 1..Len(sq) :
                     /\ \A m \in 1..Len(sq) : RLe(sq[m].similarity, sq[k].similarity)
                     /\ \A m \in 1..(k-1) : RLt(sq[m].similarity, sq[k].similarity)
           rest == [m \in 1..(Len(sq) - 1) |-> IF m < best THEN sq[m] ELSE sq[m + 1]]
       IN  <<sq[best]>> \o SortBySimilarity(rest)

\* getSubjectName(code)
getSubjectName(code) ==
  CASE code = "1011" -> "Chemistry" [] code = "1001" -> "Physics"
    [] code = "1002" -> "Biology" [] code = "1003" -> "Mathematics"
    [] code = "1004" -> "Islamiyat" [] code = "1005" -> "Urdu"
    [] code = "1006" -> "English" [] code = "1007" -> "Computer Science"
    [] code = "1008" -> "Economics" [] code = "1009" -> "History"
    [] code = "1010" -> "Geography" [] OTHER -> code

\* (Citations done wrongly: the citations stay in the order of the groups)
CitationsUnsorted(groups) ==
  Map(FlatChunks(groups),
      LAMBDA gc : [subject |-> gc.group.subject,
                   subjectName |-> getSubjectName(gc.group.subject),
                   year |-> gc.group.year, session |-> gc.group.session,
                   paper |-> gc.group.paper, file_type |-> gc.group.filetype,
                   storage_path |-> gc.group.storagePath,
                   chunk_index |-> gc.chunk.chunkIndex,
                   similarity |-> gc.chunk.similarity])

\* The citations of every retained fragment, by similarity descending
Citations(groups) ==
  SortBySimilarity(
    Map(FlatChunks(groups),
        LAMBDA gc : [subject |-> gc.group.subject,
                     subjectName |-> getSubjectName(gc.group.subject),
                     year |-> gc.group.year, session |-> gc.group.session,
                     paper |-> gc.group.paper, file_type |-> gc.group.filetype,
                     storage_path |-> gc.group.storagePath,
                     chunk_index |-> gc.chunk.chunkIndex,
                     similarity |-> gc.chunk.similarity]))

\* The ExamAnswer generateExamAnswer returns when the model answered reply.
ExamAnswerOf(result, reply) ==
  LET parsed == ParsedOrFallback(reply)
  IN  [answer |-> parsed.answer,
       markingPoints |-> MarkingPoints(parsed),
       commonMistakes |-> IF HasField(parsed, "common_mistakes")
                          THEN parsed.common_mistakes ELSE <<>>,
       citations |-> Take(Citations(result.groupedResults), 5),
       confidenceScore |-> ConfidenceScore(result),
       coveragePercentage |-> CoveragePercentage(result)]

-----------------------------------------------------------------------------
(* POST /query *)

\* An awaited call that has not settled; one that was rejected; one that
\* resolved to { data: null, error }; one that resolved to { data, error: null }
\* (NoData for data: null).
NotSettled == [kind |-> "none"]
Rejected == [kind |-> "rejected"]
WithError == [kind |-> "error"]
NoData == [kind |-> "null"]
WithData(data) == [kind |-> "data", data |-> data]

NoRequest == [question |-> "", limit |-> 5, filters |-> [none |-> TRUE]]
NoClassification == [intent |-> "none", metadata |-> NoMetadata]

\* The limits and filters of the requests (limit defaults to 5).
Limits == {2, 5}
Filters == {[none |-> TRUE], [subject |-> "1011"]}

smalltalkResponses == <<"Hi! Ask me about a topic", "Hey there!", "Hello!", "Hi! Want to search">>

\* res.status(status).json(body)
Respond(rs, status, body) == Append(rs, [status |-> status, body |-> body])

\* The citations of the context-only response
FallbackCitations(result) == Take(Citations(result.groupedResults), 5)

\* Math.min(1, rawSimilarityScores[0] || 0)
FallbackConfidence(result) ==
  IF Len(result.rawSimilarityScores) > 0
  THEN RMin(R(1, 1), result.rawSimilarityScores[1])
  ELSE R(0, 1)

\* groupedResults.flatMap(...).join("\n\n").substring(0, 600)
RECURSIVE JoinContents(_)
JoinContents(cs) ==
  IF cs = <<>> THEN ""
  ELSE IF Len(cs) = 1 THEN cs[1].chunk.content
  ELSE cs[1].chunk.content \o "\n\n" \o JoinContents(Tail(cs))

ContextText(result) ==
  LET joined == JoinContents(FlatChunks(result.groupedResults))
  IN  SubSeq(joined, 1, Min(600, Len(joined)))

\* (ExamResponse done wrongly: a failed retrieval is reported as a failure)
ExamResponseFailing(result, answer, limit) ==
  IF ~result.success
  THEN [status |-> 500, body |-> [error |-> result.error]]
  ELSE [status |-> 200,
        body |-> [type |-> "exam_question", answer |-> "", citations |-> <<>>,
                  confidence_score |-> R(0, 1), coverage_percentage |-> R(0, 1)]]

\* The response of the exam_question branch to the retrieval result and the
\* ExamAnswer (NoAnswer for null).
ExamResponse(result, answer, limit) ==
  IF ~result.success
  THEN [status |-> 200,
        body |-> [type |-> "exam_question",
                  answer |-> "I don't have enough information",
                  citations |-> <<>>,
                  confidence_score |-> R(0, 1),
                  coverage_percentage |-> R(0, 1),
                  low_confidence |-> TRUE]]
  ELSE IF answer = NoAnswer
  THEN [status |-> 200,
        body |-> [type |-> "exam_question",
                  answer |-> "Based on exam sources:\n\n" \o ContextText(result) \o "...",
                  citations |-> FallbackCitations(result),
                  confidence_score |-> FallbackConfidence(result),
                  coverage_percentage |-> CoveragePercentage(result)]]
  ELSE [status |-> 200,
        body |-> [type |-> "exam_question",
                  answer |-> answer.answer,
                  marking_points |-> answer.markingPoints,
                  common_mistakes |-> answer.commonMistakes,
                  citations |-> Take(answer.citations, limit),
                  confidence_score |-> answer.confidenceScore,
                  coverage_percentage |-> answer.coveragePercentage,
                  low_confidence |-> RLt(answer.confidenceScore, R(4, 10))]]

\* The entry of sq under key (0 when there is none): an object's property
IndexOfKey(sq, KeyOf(_), key) ==
  IF \E k \in 1..Len(sq) : KeyOf(sq[k]) = key
  THEN CHOOSE k \in 1..Len(sq) : KeyOf(sq[k]) = key
  ELSE 0

\* if (!obj[key]) obj[key] = fresh
Ensure(sq, KeyOf(_), key, fresh) ==
  IF IndexOfKey(sq, KeyOf, key) = 0 THEN Append(sq, fresh) ELSE sq

\* (paper.paper_files || []).forEach((pf) => files[pf.file_type] = {...})
RECURSIVE PutFiles(_, _)
PutFiles(files, pfs) ==
  IF pfs = <<>> THEN files
  ELSE LET pf == Head(pfs)
           at == IndexOfKey(files, LAMBDA f : f.file_type, pf.file_type)
       IN  PutFiles(IF at = 0 THEN Append(files, pf) ELSE [files EXCEPT ![at] = pf],
                    Tail(pfs))

\* The body of results.reduce: acc after paper
GroupPaper(acc, paper) ==
  LET key == <<paper.subjects.code, paper.year>>
      a1 == Ensure(acc, LAMBDA g : g.key, key,
                   [key |-> key, subject |-> paper.subjects.code, year |-> paper.year,
                    level |-> paper.subjects.level, sessions |-> <<>>])
      gi == IndexOfKey(a1, LAMBDA g : g.key, key)
      s1 == Ensure(a1[gi].sessions, LAMBDA x : x.session, paper.session,
                   [session |-> paper.session, papers |-> <<>>])
      si == IndexOfKey(s1, LAMBDA x : x.session, paper.session)
      p1 == Ensure(s1[si].papers, LAMBDA x : x.paper, paper.paper,
                   [paper |-> paper.paper, files |-> <<>>])
      pi == IndexOfKey(p1, LAMBDA x : x.paper, paper.paper)
      f1 == PutFiles(p1[pi].files, paper.paper_files)
  IN  [a1 EXCEPT ![gi].sessions =
         [s1 EXCEPT ![si].papers = [p1 EXCEPT ![pi].files = f1]]]

RECURSIVE GroupPapers(_, _)
GroupPapers(acc, results) ==
  IF results = <<>> THEN acc
  ELSE GroupPapers(GroupPaper(acc, Head(results)), Tail(results))

\* The rows the papers query may return: the papers of the year asked for
\* (all papers when no year is asked for), in any order.
PapersData(metadata) ==
  LET rows == {x \in Papers : metadata.year = 0 \/ x.year = metadata.year}
      n == Cardinality(rows)
  IN  { sq \in [1..n -> rows] : \A a, b \in 1..n : a # b => sq[a] # sq[b] }

\* (FilterByFileType done wrongly: the detected paper number filters as well)
FilterByFileTypeAndPaper(results, metadata) ==
  SelectSeq(results, LAMBDA x :
    /\ metadata.paper = "" \/ x.paper = metadata.paper
    /\ metadata.fileType = "" \/
         \E k \in 1..Len(x.paper_files) : x.paper_files[k].file_type = metadata.fileType)

\* results.filter((paper) => paper.paper_files?.some(...)), when a file type
\* was detected
FilterByFileType(results, metadata) ==
  IF metadata.fileType = "" THEN results
  ELSE SelectSeq(results, LAMBDA x :
         \E k \in 1..Len(x.paper_files) : x.paper_files[k].file_type = metadata.fileType)

\* The response of the paper_lookup branch to the rows data
PaperLookupResponse(data, metadata) ==
  LET grouped == GroupPapers(<<>>, FilterByFileType(data, metadata))
  IN  [status |-> 200,
       body |-> [type |-> "paper_lookup",
                 found |-> Len(grouped),
                 results |-> Map(grouped, LAMBDA g :
                               [subject |-> g.subject, year |-> g.year,
                                level |-> g.level, sessions |-> g.sessions]),
                 citations |-> <<>>]]

nonQVars == <<ckVars, storeVars, inVars, histVars>>

\* The handler up to its first await.
QReceive(question, limit, filters) ==
  /\ qPc = "idle"
  /\ req' = [question |-> question, limit |-> limit, filters |-> filters]
  /\ usesFallback' = FALSE
  /\ filteredResults' = <<>>
  /\ enrichedChunks' = <<>>
  /\ papersRes' = NotSettled
  /\ searchRes' = NotSettled
  /\ enrichRes' = NotSettled
  /\ completion' = NotSettled
  /\ ragResult' = NoRagResult
  /\ examAnswer' = NoAnswer
  /\ \/ /\ Trim(question) = ""
        /\ classification' = NoClassification
        /\ responses' = Respond(<<>>, 400, [error |-> "Question is required"])
        /\ qPc' = "done"
     \/ /\ Trim(question) # ""
        /\ classification' = Classified[question]
        /\ \/ /\ classification'.intent = "smalltalk"
              /\ \E k \in 1..Len(smalltalkResponses) :
                   responses' = Respond(<<>>, 200,
                                        [type |-> "smalltalk",
                                         answer |-> smalltalkResponses[k],
                                         citations |-> <<>>])
              /\ qPc' = "done"
           \/ /\ classification'.intent = "paper_lookup"
              /\ responses' = <<>>
              /\ qPc' = "papers"
           \/ /\ classification'.intent = "exam_question"
              /\ responses' = <<>>
              /\ qPc' = "embed"
  /\ UNCHANGED nonQVars

Receive == \E question \in Questions, limit \in Limits, filters \in Filters :
             QReceive(question, limit, filters)

\* The papers query settles: it reports an error, is rejected, or returns
\* data (null or rows).
PapersDone ==
  /\ qPc = "papers"
  /\ \/ /\ papersRes' = WithError
        /\ responses' = Respond(responses, 500, [error |-> "papers query failed"])
     \/ /\ papersRes' = Rejected
        /\ responses' = Respond(responses, 500, [error |-> "fetch failed"])
     \/ /\ papersRes' = NoData
        /\ LET r == PaperLookupResponse(<<>>, classification.metadata)
           IN  responses' = Respond(responses, r.status, r.body)
     \/ \E data \in PapersData(classification.metadata) :
          /\ papersRes' = WithData(data)
          /\ LET r == PaperLookupResponse(data, classification.metadata)
             IN  responses' = Respond(responses, r.status, r.body)
  /\ qPc' = "done"
  /\ UNCHANGED <<req, classification, usesFallback, filteredResults, enrichedChunks,
                 searchRes, enrichRes, completion, ragResult, examAnswer>>
  /\ UNCHANGED nonQVars

\* ragRetrieval returns result; the handler goes on to the response of a
\* failed retrieval, to the response of a null ExamAnswer, or to the language
\* model call of generateExamAnswer.
RetrievalReturns(result) ==
  /\ ragResult' = result
  /\ examAnswer' = NoAnswer
  /\ IF result.success /\ AnswerGuard(result)
     THEN /\ qPc' = "llm"
          /\ UNCHANGED responses
     ELSE /\ qPc' = "done"
          /\ LET r == ExamResponse(result, NoAnswer, req.limit)
             IN  responses' = Respond(responses, r.status, r.body)

\* The embedding call settles: an embedding, a body without one, a non-2xx
\* status, or a rejection.
EmbedQuestionDone ==
  /\ qPc = "embed"
  /\ \E outcome \in {"ok", "malformed", "status", "throw"} :
       usesFallback' = (outcome # "ok")
  /\ qPc' = "search"
  /\ UNCHANGED <<req, classification, filteredResults, enrichedChunks, papersRes,
                 searchRes, enrichRes, completion, ragResult, examAnswer, responses>>
  /\ UNCHANGED nonQVars

\* What rag_search may return: the hits for at most MaxHits stored fragments.
SearchResults ==
  { SortHits(p, S) : p \in Profiles,
                     S \in {T \in SUBSET QueryChunkIds : Cardinality(T) <= MaxHits} }

\* How the rag_search call may settle.
SearchOutcomes == {Rejected, WithError, NoData} \cup {WithData(d) : d \in SearchResults}

\* How the enrichment select for the fragments chunkIds may settle.
EnrichOutcomes(table, chunkIds) ==
  {Rejected, WithError, NoData} \cup {WithData(d) : d \in EnrichedRows(table, chunkIds)}

\* (searchResults || []).filter(...) of a settled search
FilteredOf(search) ==
  IF search.kind = "data" THEN FilterByThreshold(search.data) ELSE <<>>

\* The search lets ragRetrieval go on to the enrichment.
SearchPasses(search) == search.kind = "data" /\ FilteredOf(search) # <<>>

\* What ragRetrieval returns, given whether the fallback embedding was used
\* and how the search and the enrichment settled (the enrichment is not
\* called unless the search passes).
RagResultOf(fallback, search, enrich) ==
  IF search.kind = "rejected" THEN RagFailure(<<>>, "fetch failed")
  ELSE IF search.kind \in {"error", "null"} \/ search.data = <<>>
  THEN RagFailure(<<>>, "No results found")
  ELSE IF FilteredOf(search) = <<>>
  THEN RagFailure(<<>>, "No results above similarity threshold (0.5)")
  ELSE IF enrich.kind = "rejected" THEN RagFailure(<<>>, "fetch failed")
  ELSE IF enrich.kind \in {"error", "null"}
  THEN RagFailure(RawScores(FilteredOf(search)), "Failed to enrich results")
  ELSE [success |-> TRUE,
        groupedResults |-> GroupRows(<<>>, enrich.data, FilteredOf(search)),
        rawSimilarityScores |-> RawScores(FilteredOf(search)),
        error |-> ""]

\* (AfterSelect done wrongly: the rows are deleted, not read)
AfterDelete(table) == {}

\* supabase.from("rag_chunks").select(...): the table after the call
AfterSelect(table) == table

\* supabase.rpc("rag_search", ...): the tables after the call; the function
\* is a similarity search over the embeddings and writes nothing.
AfterRagSearch(tables) == tables

\* The rag_search call settles.
SearchDone ==
  /\ qPc = "search"
  /\ \E search \in SearchOutcomes :
       /\ searchRes' = search
       /\ IF SearchPasses(search)
          THEN /\ filteredResults' = FilteredOf(search)
               /\ qPc' = "enrich"
               /\ UNCHANGED <<ragResult, examAnswer, responses>>
          ELSE /\ RetrievalReturns(RagResultOf(usesFallback, search, NotSettled))
               /\ UNCHANGED filteredResults
  /\ UNCHANGED <<req, classification, usesFallback, enrichedChunks, papersRes, enrichRes,
                 completion>>
  /\ ragChunks' = AfterRagSearch(<<ragChunks, ragEmbeddings>>)[1]
  /\ ragEmbeddings' = AfterRagSearch(<<ragChunks, ragEmbeddings>>)[2]
  /\ UNCHANGED <<ckVars, nextId, inVars, histVars>>

\* The enrichment select settles.
EnrichDone ==
  /\ qPc = "enrich"
  /\ \E enrich \in EnrichOutcomes(ragChunks, {filteredResults[k].chunk_id :
                                               k \in 1..Len(filteredResults)}) :
       /\ enrichRes' = enrich
       /\ enrichedChunks' = IF enrich.kind = "data" THEN enrich.data ELSE <<>>
       /\ RetrievalReturns(RagResultOf(usesFallback, searchRes, enrich))
  /\ UNCHANGED <<req, classification, usesFallback, filteredResults, papersRes, searchRes,
                 completion>>
  /\ ragChunks' = AfterSelect(ragChunks)
  /\ UNCHANGED <<ckVars, ragEmbeddings, nextId, inVars, histVars>>

\* How the language-model call may settle: rejected, or a completion whose
\* content is one of LlmReplies.
LlmOutcomes ==
  {Rejected} \cup {[kind |-> "data", text |-> reply.text, parsed |-> reply.parsed] :
                     reply \in LlmReplies}

\* What generateExamAnswer returns once the language-model call has settled:
\* null when the call was rejected, else the ExamAnswer made of the reply.
AnswerOf(result, outcome) ==
  IF outcome.kind = "rejected" THEN NoAnswer
  ELSE ExamAnswerOf(result, [text |-> outcome.text, parsed |-> outcome.parsed])

LlmAnswers(result) == {AnswerOf(result, outcome) : outcome \in LlmOutcomes}

\* The language-model call settles and the handler responds.
LlmDone ==
  /\ qPc = "llm"
  /\ \E outcome \in LlmOutcomes :
       /\ completion' = outcome
       /\ examAnswer' = AnswerOf(ragResult, outcome)
       /\ LET r == ExamResponse(ragResult, AnswerOf(ragResult, outcome), req.limit)
          IN  responses' = Respond(responses, r.status, r.body)
  /\ qPc' = "done"
  /\ UNCHANGED <<req, classification, usesFallback, filteredResults, enrichedChunks,
                 papersRes, searchRes, enrichRes, ragResult>>
  /\ UNCHANGED nonQVars

NextQuery ==
  \/ Receive
  \/ PapersDone
  \/ EmbedQuestionDone
  \/ SearchDone
  \/ EnrichDone
  \/ LlmDone

-----------------------------------------------------------------------------
(* Specification of generateExamAnswer alone: inputs drawn from bounded sets *)

FileNames ==
  << "pf1", "pf2", "pf3", "pf4", "pf5", "pf6", "pf7", "pf8", "pf9", "pf10",
     "pf11", "pf12", "pf13", "pf14", "pf15", "pf16", "pf17" >>

\* Retrieval results of n groups of one fragment each, the first one blank.
GroupCounts == {0, 1, 2, 3, 16, 17}
Groups(n) ==
  [k \in 1..n |->
     [paperFileId |-> FileNames[k], filetype |-> "QP", storagePath |-> "",
      chunks |-> <<[id |-> k, content |-> IF k = 1 THEN " " ELSE Rep("a", 90),
                    chunkIndex |-> 0, similarity |-> Sim(50)]>>,
      subject |-> "1011", year |-> 2022, session |-> "May/June", paper |-> "P1"]]

\* Lists of raw similarity scores, the empty list among them; scores outside
\* [0.1, 1] among them.
Scores == {Sim(-20), Sim(5), Sim(50), Sim(80), Sim(95), Sim(100), Sim(150)}
ScoreLists == {<<>>} \cup {<<a>> : a \in Scores} \cup {<<a, b>> : a, b \in Scores}

AnswerInputs ==
  { [success |-> ok, groupedResults |-> Groups(n), rawSimilarityScores |-> scores,
     error |-> ""] : ok \in BOOLEAN, n \in GroupCounts, scores \in ScoreLists }

\* generateExamAnswer(question, result) up to its await
GenerateCall ==
  /\ qPc = "idle"
  /\ \E result \in AnswerInputs :
       /\ ragResult' = result
       /\ examAnswer' = NoAnswer
       /\ qPc' = IF AnswerGuard(result) THEN "llm" ELSE "returned"
  /\ UNCHANGED <<req, classification, usesFallback, filteredResults, enrichedChunks,
                 papersRes, searchRes, enrichRes, completion, responses>>
  /\ UNCHANGED nonQVars

\* generateExamAnswer from its await to its return
GenerateReturn ==
  /\ qPc = "llm"
  /\ \E outcome \in LlmOutcomes :
       /\ completion' = outcome
       /\ examAnswer' = AnswerOf(ragResult, outcome)
  /\ qPc' = "returned"
  /\ UNCHANGED <<req, classification, usesFallback, filteredResults, enrichedChunks,
                 papersRes, searchRes, enrichRes, ragResult, responses>>
  /\ UNCHANGED nonQVars

NextAnswer == GenerateCall \/ GenerateReturn


-----------------------------------------------------------------------------
(* Initial states and specifications *)

InitCk ==
  /\ ckPc = "idle"
  /\ clean = ""
  /\ chunkSize = 1
  /\ overlap = 0
  /\ i = 0
  /\ chunks = <<>>
  /\ visited = <<>>

InitStore ==
  /\ ragChunks = {}
  /\ ragEmbeddings = EmptyBag
  /\ nextId = 1

InitIngestIn(envs, files) ==
  /\ env \in envs
  /\ paperFiles = files
  /\ ollamaModel = "bge-m3"
  /\ inPc = "idle"
  /\ pfId = "pf1"
  /\ fileChunks = <<>>
  /\ dbChunks = <<>>
  /\ toEmbed = <<>>
  /\ idx = 0
  /\ runners = [r \in Runners |-> IdleRunner]
  /\ embedsMade = 0
  /\ poolLog = NoPoolLog
  /\ inResult = NoResult
  /\ runs = 0
  /\ cur = [pf |-> "pf1", tid |-> 0, clean |-> FALSE]
  /\ faults = 0
  /\ prev = [pf |-> "pf1", tid |-> 0, clean |-> FALSE, exited |-> FALSE]
  /\ atStart = [chunks |-> {}, embeds |-> EmptyBag]

InitQuery ==
  /\ qPc = "idle"
  /\ req = NoRequest
  /\ classification = NoClassification
  /\ usesFallback = FALSE
  /\ filteredResults = <<>>
  /\ enrichedChunks = <<>>
  /\ papersRes = NotSettled
  /\ searchRes = NotSettled
  /\ enrichRes = NotSettled
  /\ completion = NotSettled
  /\ ragResult = NoRagResult
  /\ examAnswer = NoAnswer
  /\ responses = <<>>

\* The store after the ingestion of the documents of QueryChunks.
InitQueryStore ==
  /\ ragChunks = QueryChunks
  /\ ragEmbeddings = SetToBag({[chunk_id |-> n, model |-> "bge-m3"] : n \in QueryChunkIds})
  /\ nextId = 6

InitIngestOf(files) == InitIngestIn(Envs, files)

InitIngest == InitIngestOf(PaperFiles)

Init == InitCk /\ InitStore /\ InitIngest /\ InitQuery

\* Table paper_files holds one document.
InitOneFile == InitCk /\ InitStore /\ InitIngestOf({"pf1"}) /\ InitQuery

\* The server over the ingested store; the ingestion script is not running
\* (its settings are the defaults).
InitServing ==
  InitCk /\ InitQueryStore /\ InitIngestIn({DefaultEnv}, PaperFiles) /\ InitQuery

\* chunkText alone, on inputs drawn from bounded sets
SpecChunk == Init /\ [][NextChunk]_vars

\* the ingestion process
SpecIngest == Init /\ [][NextIngest]_vars

\* A call of ingestOne that has begun goes on: the event loop runs every
\* continuation that is ready and every awaited request settles.
RunStep == inPc \notin {"idle", "returned", "exited"} /\ NextIngest

\* the ingestion process over one document, its calls running to their end
SpecIngestLive == InitOneFile /\ [][NextIngest]_vars /\ WF_vars(RunStep)

\* Table paper_files holds one document and OLLAMA_MODEL is changed between
\* two starts of the process.
InitTwoModels == InitCk /\ InitStore /\ InitIngestIn(ModelEnvs, {"pf1"}) /\ InitQuery

\* the ingestion process over one document, under two embedding models
SpecIngestModels == InitTwoModels /\ [][NextIngest]_vars

\* the POST /query handler over an ingested store
SpecQuery == InitServing /\ [][NextQuery]_vars

\* generateExamAnswer alone, on inputs drawn from bounded sets
SpecAnswer == InitServing /\ [][NextAnswer]_vars

-----
(* Properties of chunkText *)

\* The positions of the cleaned text, 0-based.
Positions == 0..(Len(clean) - 1)

InSpan(p, v) == v.from <= p /\ p < v.to

\* C3: the start offset i strictly increases on every loop iteration that is
\* followed by another one, for every chunkSize >= 1 and overlap >= 0
\* (so that the loop terminates).
C3_StartOffsetIncreases ==
  [][(ckPc = "loop" /\ ckPc' = "loop") => i' > i]_vars

\* C9: every fragment in the list chunkText builds has, after trimming, more
\* than 80 characters.
C9_FragmentsLongerThanMin ==
  \A k \in 1..Len(chunks) : Len(Trim(chunks[k])) > MinChunkLen

\* chunkText returned two fragments after dropping at least one slice.
C9_Witness ==
  /\ ckPc = "done"
  /\ Len(chunks) >= 2
  /\ \E k \in 1..Len(visited) : ~visited[k].kept

\* C10 (as claimed): the spans of the returned fragments cover every position
\* of the cleaned text, and consecutive returned fragments overlap or abut.
C10_ReturnedSpansCover ==
  ckPc = "done" =>
    LET ret == SelectSeq(visited, LAMBDA v : v.kept)
    IN  /\ \A p \in Positions : \E k \in 1..Len(ret) : InSpan(p, ret[k])
        /\ \A k \in 1..(Len(ret) - 1) : ret[k+1].from <= ret[k].to

\* C10 (amended): the spans of the loop's iterations cover every position of
\* the cleaned text and consecutive iterations overlap or abut; the returned
\* list holds, in order, the trimmed slices of exactly those iterations whose
\* trimmed slice is longer than 80 characters.
C10_IterationSpansCover ==
  /\ \A k \in 1..(Len(visited) - 1) : visited[k+1].from <= visited[k].to
  /\ \A k \in 1..Len(visited) :
       visited[k].kept <=>
         Len(Trim(Slice(clean, visited[k].from, visited[k].to))) > MinChunkLen
  /\ LET ret == SelectSeq(visited, LAMBDA v : v.kept)
     IN  /\ Len(chunks) = Len(ret)
         /\ \A k \in 1..Len(ret) :
              chunks[k] = Trim(Slice(clean, ret[k].from, ret[k].to))
  /\ ckPc = "done" =>
       \A p \in Positions : \E k \in 1..Len(visited) : InSpan(p, visited[k])

\* chunkText returned after three or more iterations, one slice kept and
\* one dropped, and some position lies in no returned fragment.
C10_Witness ==
  /\ ckPc = "done"
  /\ Len(visited) >= 3
  /\ \E k \in 1..Len(visited) : visited[k].kept
  /\ \E p \in Positions :
       \A k \in 1..Len(visited) : InSpan(p, visited[k]) => ~visited[k].kept

-----------------------------------------------------------------------------
(* Properties of ingestOne *)

\* The columns of the rag_chunks rows other than embedding_status.
Fragments(table) ==
  { [id |-> t.id, paper_file_id |-> t.paper_file_id, chunk_index |-> t.chunk_index,
     content |-> t.content, content_hash |-> t.content_hash] : t \in table }

\* This call and the one before it were for the same document, extracted the
\* same text, and in neither did any operation fail.
SecondCleanRun ==
  /\ inPc = "returned"
  /\ cur.clean /\ prev.clean
  /\ cur.pf = prev.pf /\ cur.tid = prev.tid

AllHandedOut == idx = Len(toEmbed)

\* C2: a failed embedding (or a failed embedding insert) does not abort the
\* run: ingestOne never rejects because of it, and once the pool has
\* stopped every fragment of the to-embed set has been handed to a worker.
C2_FailureSkipsFragment ==
  /\ ~(inPc \in {"rejected", "exited"} /\ cur.tid # 0)
  /\ (inPc = "returned" /\ Len(toEmbed) > 0) => AllHandedOut

\* C8: a call whose extracted text has fewer than 200 characters returns
\* chunksMade = 0 and embedsMade = 0 with the store as it was when the call
\* started, no chunking, no upsert and no worker having run.
C8_ShortTextSkipped ==
  (cur.tid # 0 /\ Len(ExtractedText[cur.tid]) < MinTextLen) =>
    /\ inPc = "returned"
    /\ inResult = [chunksMade |-> 0, embedsMade |-> 0]
    /\ ragChunks = atStart.chunks
    /\ ragEmbeddings = atStart.embeds
    /\ ckPc = "idle"
    /\ fileChunks = <<>>
    /\ \A r \in Runners : runners[r].st = "idle"

\* A 150-character text was skipped over a store that holds fragments.
C8_Witness ==
  /\ cur.tid # 0
  /\ Len(ExtractedText[cur.tid]) = 150
  /\ inPc = "returned"
  /\ ragChunks # {}

-----------------------------------------------------------------------------
(* Properties of POST /query and ragRetrieval *)

LowConfidenceShape ==
  {"type", "answer", "citations", "confidence_score", "coverage_percentage",
   "low_confidence"}
ContextOnlyShape ==
  {"type", "answer", "citations", "confidence_score", "coverage_percentage"}
AnsweredShape ==
  {"type", "answer", "marking_points", "common_mistakes", "citations",
   "confidence_score", "coverage_percentage", "low_confidence"}

\* C4: a request classified exam_question is answered exactly once, whatever
\* the embedding call, the search, the enrichment and the language-model
\* call did: no response while the handler runs, and at its end one response
\* of status 200 and type "exam_question" in the low-confidence, context-only
\* or answered shape.
C4_ExamQuestionAnswered ==
  classification.intent = "exam_question" =>
    IF qPc = "done"
    THEN /\ Len(responses) = 1
         /\ responses[1].status = 200
         /\ responses[1].body.type = "exam_question"
         /\ \/ /\ DOMAIN responses[1].body = LowConfidenceShape
               /\ responses[1].body.low_confidence
               /\ ~ragResult.success
            \/ /\ DOMAIN responses[1].body = ContextOnlyShape
               /\ ragResult.success /\ examAnswer = NoAnswer
            \/ /\ DOMAIN responses[1].body = AnsweredShape
               /\ ragResult.success /\ examAnswer # NoAnswer
    ELSE responses = <<>>

\* An exam question was answered although the embedding call failed and the
\* search or the enrichment was rejected.
C4_Witness ==
  /\ qPc = "done"
  /\ classification.intent = "exam_question"
  /\ usesFallback
  /\ ragResult.error = "fetch failed"
  /\ Len(responses) = 1

\* C5 (as claimed): a request classified paper_lookup is answered with a
\* response of type "paper_lookup" and a grouped results list, never with a
\* failure.
C5_PaperLookupNeverFails ==
  (qPc = "done" /\ classification.intent = "paper_lookup") =>
    /\ Len(responses) = 1
    /\ responses[1].status = 200
    /\ responses[1].body.type = "paper_lookup"
    /\ "results" \in DOMAIN responses[1].body

\* The fragments of the stored document pf among the rows sq.
RowsOf(sq, pf) == {k \in 1..Len(sq) : sq[k].paper_file_id = pf}

\* C6: every group of a retrieval result holds at most MAX_CHUNKS_PER_FILE
\* fragments, and every fragment of a group is a stored fragment of the
\* group's document.
C6_GroupsCapped ==
  \A g \in 1..Len(ragResult.groupedResults) :
    LET group == ragResult.groupedResults[g]
    IN  /\ Len(group.chunks) <= MAX_CHUNKS_PER_FILE
        /\ \A c \in 1..Len(group.chunks) :
             \E t \in ragChunks : /\ t.id = group.chunks[c].id
                                  /\ t.paper_file_id = group.paperFileId

\* Three fragments of one document passed the threshold and were enriched;
\* the document's group holds two of them.
C6_Witness ==
  /\ ragResult.success
  /\ \E g \in 1..Len(ragResult.groupedResults) :
       /\ Cardinality(RowsOf(enrichedChunks, ragResult.groupedResults[g].paperFileId)) >= 3
       /\ Len(ragResult.groupedResults[g].chunks) = MAX_CHUNKS_PER_FILE
  /\ Len(ragResult.groupedResults) >= 2

-----------------------------------------------------------------------------
(* Properties of generateExamAnswer *)

\* C7: the ExamAnswer generateExamAnswer returns has a confidenceScore
\* within [0.1, 1] and a coveragePercentage within [0, 100], for every list
\* of raw similarity scores (the empty list too) and every number of groups.
C7_ConfidenceAndCoverageInRange ==
  examAnswer # NoAnswer =>
    /\ RLe(R(1, 10), examAnswer.confidenceScore)
    /\ RLe(examAnswer.confidenceScore, R(1, 1))
    /\ RLe(R(0, 1), examAnswer.coveragePercentage)
    /\ RLe(examAnswer.coveragePercentage, R(100, 1))

\* An ExamAnswer was made of a result without scores and with more than
\* TOP_K groups.
C7_Witness ==
  /\ qPc = "returned"
  /\ examAnswer # NoAnswer
  /\ ragResult.rawSimilarityScores = <<>>
  /\ Len(ragResult.groupedResults) > TOP_K

-----------------------------------------------------------------------------
(* Properties of classifyIntent *)

\* The lowered, trimmed question holds a year 20xx, a paper p1/p2/p3 or a
\* file-type abbreviation as a token of its own.
HasIndicatorToken(q) ==
  \/ YearAt(q) # {}
  \/ \E t \in {"p1", "p2", "p3"} : TokenAt(q, t) # {}
  \/ \E k \in 1..Len(fileTypeIndicators) : TokenAt(q, fileTypeIndicators[k]) # {}

LookupByTokens ==
  [question \in Questions |->
     LET q == Trim(ToLower(question))
     IN  /\ ~IsSmalltalk(q)
         /\ FirstIncluded(q, subjects) # ""
         /\ HasIndicatorToken(q)]

\* C11 (as claimed): a classified question is a paper_lookup exactly when it
\* is not smalltalk, names a subject and holds a year, a paper or a
\* file-type abbreviation as a token of its own.
C11_PaperLookupIffTokens ==
  classification # NoClassification =>
    (classification.intent = "paper_lookup" <=> LookupByTokens[req.question])

-----------------------------------------------------------------------------
(* Properties of the answer made of a malformed reply *)

\* The model replied, and its text holds no parsable JSON object or an
\* object without an answer field.
MalformedReply ==
  /\ completion.kind = "data"
  /\ ~HasField(completion.parsed, "answer")

\* C12: when the model's reply holds no parsable JSON object, or an object
\* without an answer field, generateExamAnswer returns an ExamAnswer with a
\* non-empty answer and at least one marking point, each of marks >= 1.
C12_MalformedReplyStillAnswered ==
  (qPc = "returned" /\ MalformedReply) =>
    /\ examAnswer # NoAnswer
    /\ examAnswer.answer # ""
    /\ Len(examAnswer.markingPoints) >= 1
    /\ \A k \in 1..Len(examAnswer.markingPoints) : examAnswer.markingPoints[k].marks >= 1

\* The model replied with an object that has marking points and no answer;
\* the raw text became the answer.
C12_Witness ==
  /\ qPc = "returned"
  /\ MalformedReply
  /\ HasField(completion.parsed, "marking_points")
  /\ examAnswer.answer = completion.text

-----------------------------------------------------------------------------
(* Properties of the context-only response *)

\* The language-model call was rejected, or its reply has no content.
NoContent ==
  \/ completion.kind = "rejected"
  \/ completion.kind = "data" /\ completion.text = ""

\* C13 (as claimed): after a successful retrieval, when the language-model
\* call is rejected or replies without content, the response is the
\* context-only one: the fragments' text as answer, no marking_points and no
\* common_mistakes, the first raw similarity score as confidence_score and
\* min(100, 100 * groups / 16) as coverage_percentage.
C13_NoContentGivesContextOnly ==
  (qPc = "done" /\ ragResult.success /\ NoContent) =>
    /\ Len(responses) = 1
    /\ DOMAIN responses[1].body = ContextOnlyShape
    /\ responses[1].body.answer =
         "Based on exam sources:\n\n" \o ContextText(ragResult) \o "..."
    /\ REq(responses[1].body.confidence_score, ragResult.rawSimilarityScores[1])
    /\ REq(responses[1].body.coverage_percentage,
           RMin(R(100, 1), R(100 * Len(ragResult.groupedResults), 16)))

-----------------------------------------------------------------------------
(* Properties of ragRetrieval *)

\* ragRetrieval has returned to the handler.
RetrievalReturned ==
  /\ classification.intent = "exam_question"
  /\ qPc \in {"llm", "done"}

\* C14 (as claimed): the result tells whether the fallback embedding was
\* used: the run on the same question with the other embedding, and the same
\* search and enrichment results, returns a different result.
C14_FallbackDetectable ==
  RetrievalReturned =>
    RagResultOf(~usesFallback, searchRes, enrichRes) # ragResult

-----------------------------------------------------------------------------
(* Properties of the confidence and coverage figures *)

\* clamp(x, lo, hi)
Clamp(x, lo, hi) == IF RLt(x, lo) THEN lo ELSE IF RLt(hi, x) THEN hi ELSE x

\* The confidence figure as specified: the clamped mean (0.3 for no scores),
\* times 1.2 and capped at 1 for three groups or more.
SpecifiedConfidence(scores, groupCount) ==
  LET mean == IF scores = <<>> THEN R(3, 10) ELSE R(SumN(scores), 100 * Len(scores))
      clamped == Clamp(mean, R(1, 10), R(1, 1))
      boosted == R(12 * clamped.n, 10 * clamped.d)
  IN  IF groupCount >= 3
      THEN (IF RLt(R(1, 1), boosted) THEN R(1, 1) ELSE boosted)
      ELSE clamped

\* The coverage figure as specified: min(100, 100 * groupCount / 16).
SpecifiedCoverage(groupCount) ==
  IF 100 * groupCount > 100 * 16 THEN R(100, 1) ELSE R(100 * groupCount, 16)

\* C18: the ExamAnswer's confidenceScore is the clamped mean of the raw
\* scores (0.3 for none), boosted by 1.2 and capped at 1 exactly for three
\* groups or more, and its coveragePercentage is min(100, 100 * groups / 16);
\* three groups with every score 0.8 give 0.96 and 18.75.
C18_ConfidenceAndCoverageFormula ==
  examAnswer # NoAnswer =>
    LET scores == ragResult.rawSimilarityScores
        groupCount == Len(ragResult.groupedResults)
    IN  /\ REq(examAnswer.confidenceScore, SpecifiedConfidence(scores, groupCount))
        /\ REq(examAnswer.coveragePercentage, SpecifiedCoverage(groupCount))
        /\ (groupCount = 3 /\ scores = <<Sim(80), Sim(80)>>) =>
             /\ REq(examAnswer.confidenceScore, R(96, 100))
             /\ REq(examAnswer.coveragePercentage, R(1875, 100))

\* An ExamAnswer was made of three groups with every score 0.8.
C18_Witness ==
  /\ qPc = "returned"
  /\ examAnswer # NoAnswer
  /\ Len(ragResult.groupedResults) = 3
  /\ ragResult.rawSimilarityScores = <<Sim(80), Sim(80)>>

\* Every similarity of sq is at least 0.5.
AllAtLeastHalf(sq) == \A k \in 1..Len(sq) : RLe(R(1, 2), sq[k].similarity)

\* C19: ragRetrieval returns success only when the search returned a hit of
\* similarity >= 0.5; no hits give the failure "No results found", hits all
\* below 0.5 give the failure naming the threshold; and in every result each
\* raw score and each retained fragment's similarity is >= 0.5.
C19_SuccessNeedsHitAboveThreshold ==
  RetrievalReturned =>
    /\ ragResult.success =>
         /\ searchRes.kind = "data"
         /\ \E k \in 1..Len(searchRes.data) : RLe(R(1, 2), searchRes.data[k].similarity)
    /\ (searchRes.kind = "data" /\ searchRes.data = <<>>) =>
         /\ ~ragResult.success
         /\ ragResult.error = "No results found"
    /\ (/\ searchRes.kind = "data"
        /\ searchRes.data # <<>>
        /\ \A k \in 1..Len(searchRes.data) : RLt(searchRes.data[k].similarity, R(1, 2))) =>
         /\ ~ragResult.success
         /\ ragResult.error = "No results above similarity threshold (0.5)"
    /\ \A k \in 1..Len(ragResult.rawSimilarityScores) :
         RLe(R(1, 2), ragResult.rawSimilarityScores[k])
    /\ \A g \in 1..Len(ragResult.groupedResults) :
         AllAtLeastHalf(ragResult.groupedResults[g].chunks)

\* A retrieval succeeded after hits below 0.5 were dropped, one hit of
\* exactly 0.5 kept.
C19_Witness ==
  /\ RetrievalReturned
  /\ ragResult.success
  /\ Len(searchRes.data) > Len(ragResult.rawSimilarityScores)
  /\ \E g \in 1..Len(ragResult.groupedResults) :
       \E c \in 1..Len(ragResult.groupedResults[g].chunks) :
         REq(ragResult.groupedResults[g].chunks[c].similarity, R(1, 2))

-----------------------------------------------------------------------------
(* Properties of the citations of a response *)

\* The handler has answered an exam question.
ExamAnswered ==
  /\ qPc = "done"
  /\ classification.intent = "exam_question"
  /\ Len(responses) = 1
  /\ responses[1].status = 200

SortedBySimilarity(cs) ==
  \A k \in 1..(Len(cs) - 1) : RLe(cs[k + 1].similarity, cs[k].similarity)

-----------------------------------------------------------------------------
(* Properties of the stored fragments and embeddings *)

\* C15 (as claimed): no step changes a stored fragment row except from
\* pending to done: a row whose content_hash is upserted again stays as it
\* is, and a status that is "done" stays "done".
C15_StoredRowsOnlyGainDone ==
  [][\A t \in ragChunks :
       \E u \in ragChunks' :
         /\ u.id = t.id
         /\ u.content_hash = t.content_hash
         /\ u.content = t.content
         /\ u.paper_file_id = t.paper_file_id
         /\ u.chunk_index = t.chunk_index
         /\ (u.embedding_status = t.embedding_status
             \/ (t.embedding_status = "pending" /\ u.embedding_status = "done"))]_vars

\* The embedding rows added since this call started.
AddedEmbeddings == BagToSet(ragEmbeddings (-) atStart.embeds)

\* This call's fragment rows are stored and were read back.
UpsertSucceeded ==
  /\ inPc \in {"pool", "rejected", "exited", "returned"}
  /\ \A k \in 1..Len(fileChunks) :
       \E t \in ragChunks : t.content_hash = Sha256(pfId, k - 1, fileChunks[k])
  /\ dbChunks # <<>>

\* C16: every embedding row references a stored fragment, and a call adds
\* an embedding only for a fragment it read back after its upsert succeeded.
C16_EmbeddingsReferenceFragments ==
  /\ \A e \in BagToSet(ragEmbeddings) : \E t \in ragChunks : t.id = e.chunk_id
  /\ AddedEmbeddings # {} =>
       /\ UpsertSucceeded
       /\ \A e \in AddedEmbeddings :
            \E k \in 1..Len(dbChunks) : dbChunks[k].id = e.chunk_id

\* The upsert of a call failed over a store that holds embeddings of the
\* document.
C16_Witness ==
  /\ inPc = "returned"
  /\ cur.tid >= 2
  /\ ~cur.clean
  /\ inResult = [chunksMade |-> 0, embedsMade |-> 0]
  /\ \E e \in BagToSet(ragEmbeddings) :
       \E t \in ragChunks : t.id = e.chunk_id /\ t.paper_file_id = cur.pf

\* The number of embedding rows of fragment id.
EmbeddingsOf(id) ==
  BagCardinality([e \in {x \in BagToSet(ragEmbeddings) : x.chunk_id = id} |->
                    CopiesIn(e, ragEmbeddings)])

\* Every stored fragment of document pf has exactly one embedding row.
OneEmbeddingEach(pf) ==
  \A t \in ragChunks : t.paper_file_id = pf => EmbeddingsOf(t.id) = 1

\* ingestOne runs again for the document of the call before, on the same
\* text, after the process ended in the middle of that call.
RerunAfterInterrupt ==
  /\ inPc \notin {"idle", "returned", "exited"}
  /\ prev.exited
  /\ cur.tid >= 2
  /\ cur.pf = prev.pf /\ cur.tid = prev.tid

\* C17: a re-run of ingestOne for a document whose call before was
\* interrupted, the store and the embedding service answering, ends with
\* each fragment of the document having exactly one embedding row.
C17_RerunCompletesEmbeddings ==
  RerunAfterInterrupt ~>
    (~cur.clean \/ (inPc = "returned" /\ OneEmbeddingEach(cur.pf)))

\* A re-run returned after a call that was interrupted between the insert
\* of an embedding and the status update, and before another fragment was
\* embedded.
C17_Witness ==
  /\ inPc = "returned"
  /\ cur.clean
  /\ prev.exited
  /\ cur.tid >= 2
  /\ cur.pf = prev.pf /\ cur.tid = prev.tid
  /\ \E t \in atStart.chunks :
       /\ t.embedding_status = "pending"
       /\ \E e \in BagToSet(atStart.embeds) : e.chunk_id = t.id
  /\ BagCardinality(ragEmbeddings) > BagCardinality(atStart.embeds)
  /\ OneEmbeddingEach(cur.pf)

-----------------------------------------------------------------------------
(* Properties of the fragments a group retains *)

\* The ids of the hits of document pf in filtered, in the order of the search.
HitsOf(filtered, pf) ==
  LET ofFile(r) == \E t \in ragChunks : t.id = r.chunk_id /\ t.paper_file_id = pf
  IN  Map(SelectSeq(filtered, ofFile), LAMBDA r : r.chunk_id)

\* The enrichment select returned a row for every fragment asked for.
EnrichedEveryHit ==
  /\ enrichRes.kind = "data"
  /\ \A k \in 1..Len(filteredResults) :
       \E m \in 1..Len(enrichRes.data) : enrichRes.data[m].id = filteredResults[k].chunk_id

\* C21 (as claimed): when more than MAX_CHUNKS_PER_FILE fragments of one
\* document pass the threshold and the enrichment select returns them all,
\* in whatever order, the document's group retains the first
\* MAX_CHUNKS_PER_FILE of them in the order of the similarity search.
C21_GroupKeepsSearchOrder ==
  (RetrievalReturned /\ ragResult.success /\ EnrichedEveryHit) =>
    \A g \in 1..Len(ragResult.groupedResults) :
      LET group == ragResult.groupedResults[g]
          hits == HitsOf(filteredResults, group.paperFileId)
      IN  Len(hits) > MAX_CHUNKS_PER_FILE =>
            Map(group.chunks, LAMBDA c : c.id) = Take(hits, MAX_CHUNKS_PER_FILE)

-----------------------------------------------------------------------------
(* Properties of the set of fragments to embed *)

\* Fragment id has an embedding row under model in embeds.
EmbeddedUnder(embeds, id, model) ==
  \E e \in BagToSet(embeds) : e.chunk_id = id /\ e.model = model

\* The rows read back that have no embedding under the configured model.
MissingUnderModel ==
  SelectSeq(dbChunks, LAMBDA c : ~EmbeddedUnder(ragEmbeddings, c.id, ollamaModel))

\* C22 (as claimed): the fragments ingestOne hands to the pool are exactly
\* the document's stored fragments that have no embedding under the
\* configured model: one embedded only under another model is embedded
\* again, one embedded under the configured model is not.
C22_EmbedsMissingUnderModel ==
  [][(inPc = "readEmbeds" /\ inPc' = "pool") => toEmbed' = MissingUnderModel]_vars

-----------------------------------------------------------------------------
(* Properties of runPool *)

\* The number of worker invocations that have started and not settled.
InFlight == Len(poolLog.started) - Len(poolLog.finished)

\* C23: at every moment of runPool, whatever the order the workers settle
\* in, at most concurrency (EMBED_CONCURRENCY) worker invocations are in
\* flight, also with more items than concurrency.
C23_InFlightAtMostConcurrency ==
  /\ InFlight <= env.EMBED_CONCURRENCY
  /\ InFlight = Cardinality({r \in DOMAIN runners :
                               runners[r].st \in {"embed", "insert", "update"}})

\* Three items for two runners: two workers are in flight after the worker
\* of the second item settled before the worker of the first.
C23_Witness ==
  /\ inPc = "pool"
  /\ Len(toEmbed) = 3
  /\ Len(toEmbed) > env.EMBED_CONCURRENCY
  /\ poolLog.finished = <<1>>
  /\ InFlight = env.EMBED_CONCURRENCY

\* The elements of sq.
Range(sq) == {sq[k] : k \in 1..Len(sq)}

NoRepeat(sq) == \A a, b \in 1..Len(sq) : a # b => sq[a] # sq[b]

\* C27: in runPool, whatever the order the runners go on in, no item is
\* passed to the worker twice, the items are passed in the order of the
\* list, and when runPool resolves (no worker having thrown) every item was
\* passed to the worker once and every worker has settled.
C27_EachItemOnce ==
  /\ NoRepeat(poolLog.started)
  /\ NoRepeat(poolLog.finished)
  /\ Range(poolLog.finished) \subseteq Range(poolLog.started)
  /\ Range(poolLog.started) = 0..(idx - 1)
  /\ idx <= Len(toEmbed)
  /\ inPc = "returned" =>
       /\ Range(poolLog.started) = 0..(Len(toEmbed) - 1)
       /\ Range(poolLog.finished) = Range(poolLog.started)

\* runPool resolved over three items, the worker of the last item having
\* settled before the worker of another item.
C27_Witness ==
  /\ inPc = "returned"
  /\ Len(toEmbed) = 3
  /\ Len(poolLog.finished) = 3
  /\ poolLog.finished[3] # 2

-----------------------------------------------------------------------------
(* Properties of the paper_lookup response *)

\* The handler has answered a paper lookup from the rows of the papers query.
LookupAnswered ==
  /\ qPc = "done"
  /\ classification.intent = "paper_lookup"
  /\ papersRes.kind = "data"
  /\ Len(responses) = 1

\* The papers of the results list: subject code, year, session and paper of
\* every paper entry, with the ids of its files.
PapersShown(results) ==
  { [code |-> results[g].subject, year |-> results[g].year,
     session |-> results[g].sessions[x].session,
     paper |-> results[g].sessions[x].papers[y].paper,
     files |-> {results[g].sessions[x].papers[y].files[f].id :
                  f \in 1..Len(results[g].sessions[x].papers[y].files)}] :
    <<g, x, y>> \in
      { gxy \in (1..Len(results)) \X (1..Cardinality(Papers)) \X (1..Cardinality(Papers)) :
          /\ gxy[2] <= Len(results[gxy[1]].sessions)
          /\ gxy[3] <= Len(results[gxy[1]].sessions[gxy[2]].papers) } }

\* The stored papers of the year asked for (any year when none is asked for)
\* that have a file of the type asked for (any paper when none is asked for).
PapersAskedFor(year, fileType) ==
  { [code |-> x.subjects.code, year |-> x.year, session |-> x.session,
     paper |-> x.paper,
     files |-> {x.paper_files[k].id : k \in 1..Len(x.paper_files)}] :
    x \in { y \in Papers :
              /\ year = 0 \/ y.year = year
              /\ fileType = "" \/
                   \E k \in 1..Len(y.paper_files) : y.paper_files[k].file_type = fileType } }

\* C24: the results of a paper_lookup response are built from exactly the
\* papers of the extracted year (when there is one) that have a file of the
\* extracted file type (when there is one); the extracted subject and paper
\* number do not restrict them, and another lookup that differs only in the
\* subject gets the same results from the same rows.
C24_LookupByYearAndFileType ==
  LookupAnswered =>
    /\ responses[1].status = 200
    /\ PapersShown(responses[1].body.results) =
         PapersAskedFor(classification.metadata.year, classification.metadata.fileType)
    /\ \A k \in 1..Len(subjects), p \in {"", "P1", "P2", "P3"} :
         responses[1].body =
           PaperLookupResponse(papersRes.data,
                               [classification.metadata EXCEPT !.subject = subjects[k],
                                                               !.paper = p]).body
    /\ \A other \in Questions :
         (/\ Classified[other].intent = "paper_lookup"
          /\ Classified[other].metadata.year = classification.metadata.year
          /\ Classified[other].metadata.fileType = classification.metadata.fileType) =>
           /\ papersRes.data \in PapersData(Classified[other].metadata)
           /\ responses[1] = PaperLookupResponse(papersRes.data, Classified[other].metadata)

\* A lookup that names physics, the year 2022 and the file type MS was
\* answered with the chemistry paper of 2022, the one that has a mark scheme;
\* the papers query had returned the physics paper of 2022 as well.
C24_Witness ==
  /\ LookupAnswered
  /\ classification.metadata.subject = "physics"
  /\ classification.metadata.fileType = "MS"
  /\ Len(papersRes.data) = 2
  /\ Len(responses[1].body.results) = 1
  /\ responses[1].body.results[1].subject = "1011"

-----------------------------------------------------------------------------
(* Properties of the stores while queries are served *)

-----------------------------------------------------------------------------
(* Properties of the counts ingestOne returns *)

\* The fragment rows stored since this call started.
AddedFragments == {t \in ragChunks : \A u \in atStart.chunks : u.id # t.id}

\* C26 (as claimed): ingestOne returns the number of embedding rows this run
\* inserted as embedsMade and the number of fragment rows this run added to
\* the store as chunksMade (0 when every fragment was stored before).
C26_ReturnsCountsCreated ==
  inPc = "returned" =>
    /\ inResult.embedsMade = BagCardinality(ragEmbeddings (-) atStart.embeds)
    /\ inResult.chunksMade = Cardinality(AddedFragments)

-----------------------------------------------------------------------------
(* Properties of a successful retrieval *)

\* C28 (as claimed): a retrieval result with success = true holds at least
\* one group and every group holds at least one fragment, also when the
\* enrichment select returns, without error, fewer rows than asked for.
C28_SuccessHasFragments ==
  (RetrievalReturned /\ ragResult.success) =>
    /\ Len(ragResult.groupedResults) >= 1
    /\ \A g \in 1..Len(ragResult.groupedResults) :
         Len(ragResult.groupedResults[g].chunks) >= 1

-----------------------------------------------------------------------------
(* Properties of the status of a stored fragment *)

\* C29 (as claimed): when a call of ingestOne has returned, over any sequence
\* of calls on the document, a stored fragment of the document has the
\* status "done" exactly when an embedding row exists for it.
C29_DoneIffEmbedded ==
  inPc = "returned" =>
    \A t \in ragChunks :
      t.paper_file_id = cur.pf =>
        (t.embedding_status = "done" <=> EmbeddingsOf(t.id) >= 1)

-----------------------------------------------------------------------------
(* Properties of low_confidence *)

\* C30: low_confidence is true only in the response of a failed retrieval,
\* whose confidence_score is 0; every answered response has a
\* confidence_score of at least 0.5, the retrieval having kept only scores
\* of at least 0.5, and so low_confidence = false.
C30_LowConfidenceOnlyWithoutResults ==
  ExamAnswered =>
    LET body == responses[1].body
    IN  /\ DOMAIN body = AnsweredShape =>
             /\ RLe(R(1, 2), body.confidence_score)
             /\ body.low_confidence = FALSE
        /\ ("low_confidence" \in DOMAIN body /\ body.low_confidence) =>
             /\ DOMAIN body = LowConfidenceShape
             /\ REq(body.confidence_score, R(0, 1))
             /\ ~ragResult.success

\* An answered response of confidence_score 0.5 exactly: the search returned
\* one hit of similarity 0.5 and hits below it, which were dropped.
C30_Witness ==
  /\ ExamAnswered
  /\ DOMAIN responses[1].body = AnsweredShape
  /\ REq(responses[1].body.confidence_score, R(1, 2))
  /\ Len(searchRes.data) > Len(ragResult.rawSimilarityScores)

====
